---------------------------- MODULE Spec2Model ----------------------------
(***************************************************************************)
(* brickdb: a disk-resident hash index with byte-range file locking.       *)
(*                                                                         *)
(* The three files of a database (.idx, .bkt, .dat) are modelled byte by   *)
(* byte as sequences of characters; every record is encoded and decoded    *)
(* the way the Go code does it (fixed-width, space-padded ASCII decimal,   *)
(* newline sentinels).  A handle is the set of scratch fields of           *)
(* HashIndex / LinearHashIndex plus the advisory (open-file-description)   *)
(* byte-range locks its descriptors hold.                                  *)
(***************************************************************************)
EXTENDS Integers, Sequences, FiniteSets, TLC

(***************************************************************************)
(* Program constants (src/index/hash_index.go:40-56 and                    *)
(* src/index/linear_hash_index/linear_hash_index.go:48-68).                *)
(***************************************************************************)
PTR_SZ == 7
PTR_MAX == 9999999
IDXLEN_SZ == 4
IDXLEN_MIN == 6
IDXLEN_MAX == 1024
DATLEN_MIN == 2
DATLEN_MAX == 1024
HASHTABLE_SIZE == 137
idxtype_sz == 3
HashIndexType == 1
LinearHashIndexType == 2
hash_idx_header_size == 4
linear_idx_header_size == 64
linear_hashtable_size == 2
nbuckets_sz == 20

\* FREE_OFF / HASH_OFF of the two variants
FreeOff(v) == IF v = "static" THEN hash_idx_header_size ELSE linear_idx_header_size
HashOff(v) == FreeOff(v) + PTR_SZ

(***************************************************************************)
(* Bounds of the model.                                                    *)
(***************************************************************************)
\* number of public operations started, over all handles
MaxOps == 3
NHandles == 2
\* number of operations of the key/value workload
MaxOpsKV == 6
\* number of operations of the concurrent workers, their Close included
MaxOpsWork == 14
\* number of operations of a writer and a reader on two handles
MaxOpsRW == 3

(***************************************************************************)
(* Bytes.                                                                  *)
(***************************************************************************)
SP == " "
NL == "\n"
SEP == ":"
NUL == "NUL"
Digits == <<"0", "1", "2", "3", "4", "5", "6", "7", "8", "9">>
Nil == "nil"

Min2(a, b) == IF a < b THEN a ELSE b

\* Let(x, F) is F(x): the value x is computed once and named by the parameter
\* of F, the way a local variable of the Go code names a value
Let(x, F(_)) == F(x)

IsDigit(ch) == \E d \in 1..10 : Digits[d] = ch
DigitVal(ch) == (CHOOSE d \in 1..10 : Digits[d] = ch) - 1

RECURSIVE Itoa(_)
Itoa(n) == IF n < 10 THEN <<Digits[n + 1]>>
           ELSE Itoa(n \div 10) \o <<Digits[(n % 10) + 1]>>

Spaces(n) == [i \in 1..n |-> SP]

\* fmt.Sprintf("%*d", w, n) for n >= 0: right-aligned, space-padded, never cut
PadInt(w, n) == LET d == Itoa(n)
                IN  IF Len(d) >= w THEN d ELSE Spaces(w - Len(d)) \o d

\* strings.TrimSpace
IsSpace(ch) == ch \in {SP, NL}
TrimSpace(s) == LET keep == {i \in 1..Len(s) : ~IsSpace(s[i])}
                IN  IF keep = {} THEN <<>>
                    ELSE SubSeq(s, CHOOSE i \in keep : \A j \in keep : i <= j,
                                   CHOOSE i \in keep : \A j \in keep : i >= j)

RECURSIVE DecVal(_)
DecVal(t) == IF Len(t) = 0 THEN 0
             ELSE 10 * DecVal(SubSeq(t, 1, Len(t) - 1)) + DigitVal(t[Len(t)])

\* strconv.ParseInt(strings.TrimSpace(s), 10, 64): value and whether err == nil;
\* the value is 0 when the text is not a number
parseInt(s) ==
    LET t == TrimSpace(s)
        signed == Len(t) > 0 /\ t[1] \in {"+", "-"}
        body == IF signed THEN SubSeq(t, 2, Len(t)) ELSE t
    IN  IF Len(body) = 0 \/ \E i \in 1..Len(body) : ~IsDigit(body[i])
        THEN [ok |-> FALSE, val |-> 0]
        ELSE [ok |-> TRUE,
              val |-> IF signed /\ t[1] = "-" THEN 0 - DecVal(body) ELSE DecVal(body)]

\* testNewLine: the last rune of s is a newline
testNewLine(s) == Len(s) > 0 /\ s[Len(s)] = NL

\* strings.Split(s, ":")
RECURSIVE SplitSep(_)
SplitSep(s) ==
    LET at == {i \in 1..Len(s) : s[i] = SEP}
    IN  IF at = {} THEN <<s>>
        ELSE LET p == CHOOSE i \in at : \A j \in at : i <= j
             IN  <<SubSeq(s, 1, p - 1)>> \o SplitSep(SubSeq(s, p + 1, Len(s)))

(***************************************************************************)
(* Files: Seek(off, SeekStart) followed by a read or a write.              *)
(***************************************************************************)
\* the bytes a read of n bytes at offset off returns (fewer at end of file)
ReadAt(f, off, n) == SubSeq(f, off + 1, Min2(off + n, Len(f)))

\* a write at offset off; a write past the end leaves a hole of zero bytes
WriteAt(f, off, data) ==
    LET base == IF off > Len(f) THEN f \o [i \in 1..(off - Len(f)) |-> NUL] ELSE f
    IN  SubSeq(base, 1, off) \o data \o SubSeq(base, off + Len(data) + 1, Len(base))

(***************************************************************************)
(* Advisory byte-range locks with open-file-description semantics.  A lock *)
(* is [lo, len, wr]; len = 0 reaches to the end of the file and beyond.    *)
(***************************************************************************)
Overlap(a, b) == /\ (b.len = 0 \/ a.lo < b.lo + b.len)
                 /\ (a.len = 0 \/ b.lo < a.lo + a.len)

\* what is left of lock l when the range r is taken out of it
Cut(l, r) ==
    IF ~Overlap(l, r) THEN {l}
    ELSE (IF l.lo < r.lo THEN {[lo |-> l.lo, len |-> r.lo - l.lo, wr |-> l.wr]} ELSE {})
         \cup
         (IF r.len # 0 /\ (l.len = 0 \/ r.lo + r.len < l.lo + l.len)
          THEN {[lo |-> r.lo + r.len,
                 len |-> IF l.len = 0 THEN 0 ELSE l.lo + l.len - (r.lo + r.len),
                 wr |-> l.wr]}
          ELSE {})

CutAll(ls, r) == UNION {Cut(l, r) : l \in ls}


(***************************************************************************)
(* An operation runs on a world w: the three files, the fields h of the    *)
(* handle that runs it, the locks lk the handle's descriptors hold, the    *)
(* locks oth of all other open handles, and blocked, which records that a  *)
(* blocking lock request (F_OFD_SETLKW) met a conflicting lock.            *)
(***************************************************************************)
Hang == "hang"      \* the operation loops forever
Panic == "panic"    \* a Go run-time panic (index out of range)

Lock(w, file, lo, len, wr) ==
    LET req == [lo |-> lo, len |-> len, wr |-> wr]
        conflict == \E o \in w.oth[file] : Overlap(o, req) /\ (wr \/ o.wr)
    IN  [w EXCEPT !.blocked = @ \/ conflict,
                  !.lk[file] = CutAll(@, req) \cup {req}]

Unlock(w, file, lo, len) ==
    [w EXCEPT !.lk[file] = CutAll(@, [lo |-> lo, len |-> len, wr |-> FALSE])]

\* the file that holds the chain records: .idx (static) or .bkt (linear)
RecFile(w) == IF w.v = "static" THEN w.idx ELSE w.bkt
SetRecFile(w, f) == IF w.v = "static" THEN [w EXCEPT !.idx = f] ELSE [w EXCEPT !.bkt = f]

(***************************************************************************)
(* XXH64(key, seed 42), reduced modulo 137 (static) and to its low four    *)
(* bits (linear), for the keys of the model.                               *)
(***************************************************************************)
\* XXH64("rf",42) = ...0010b, 64 mod 137; "rj": ...1010b, 64; "rm": ...1110b, 64;
\* "  " (the key of a deleted two-byte record): ...0001b, 28 mod 137;
\* "rb": ...0000b, 8; "rn": ...0001b, 19; "ra": ...0011b, 132; "ru": ...0101b, 40;
\* "rg": ...0110b, 45; "rk": ...0111b, 36; "rr": ...1000b, 117
\* "" (the empty key): ...0100b, 73; LongKey: ...0011b, 129
\* a key of 1020 bytes: with it the shortest chain record ("key:0:3\n") has 1025 bytes
LongKey == [i \in 1..(IDXLEN_MAX - 4) |-> "k"]
\* a key of 1019 bytes: its chain record "key:0:3\n" has IDXLEN_MAX bytes
NearKey == [i \in 1..(IDXLEN_MAX - 5) |-> "k"]
\* keys of 19 bytes: with a 2-byte value their chain record takes 35 bytes
DeepKey(c) == [i \in 1..19 |-> IF i = 19 THEN c ELSE "k"]
\* a key that holds the separator of the chain record: "g:a" hashes to ...1110b, 64
ColonKey == <<"g", SEP, "a">>

XXH64Mod137(key) == CASE key = <<"r", "f">> -> 64
                      [] key = <<"r", "j">> -> 64
                      [] key = <<"r", "m">> -> 64
                      [] key = <<" ", " ">> -> 28
                      [] key = <<"r", "b">> -> 8
                      [] key = <<"r", "n">> -> 19
                      [] key = <<"r", "a">> -> 132
                      [] key = <<"r", "u">> -> 40
                      [] key = <<"r", "g">> -> 45
                      [] key = <<"r", "k">> -> 36
                      [] key = <<"r", "r">> -> 117
                      [] key = <<>> -> 73
                      [] key = LongKey -> 129
                      [] key = NearKey -> 130
                      [] key = DeepKey("q") -> 53
                      [] key = DeepKey("t") -> 50
                      [] key = DeepKey("n") -> 68
                      [] key = ColonKey -> 64
XXH64Low4(key) == CASE key = <<"r", "f">> -> 2
                    [] key = <<"r", "j">> -> 10
                    [] key = <<"r", "m">> -> 14
                    [] key = <<" ", " ">> -> 1
                    [] key = <<"r", "b">> -> 0
                    [] key = <<"r", "n">> -> 1
                    [] key = <<"r", "a">> -> 3
                    [] key = <<"r", "u">> -> 5
                    [] key = <<"r", "g">> -> 6
                    [] key = <<"r", "k">> -> 7
                    [] key = <<"r", "r">> -> 8
                    [] key = <<>> -> 4
                    [] key = LongKey -> 3
                    [] key = NearKey -> 3
                    [] key = DeepKey("q") -> 0
                    [] key = DeepKey("t") -> 0
                    [] key = DeepKey("n") -> 1
                    [] key = ColonKey -> 14

RECURSIVE Pow2(_)
Pow2(n) == IF n <= 0 THEN 1 ELSE 2 * Pow2(n - 1)

\* int16(math.Ceil(math.Log2(float64(n)))) for n >= 1
RECURSIVE CeilLog2From(_, _)
CeilLog2From(n, i) == IF Pow2(i) >= n THEN i ELSE CeilLog2From(n, i + 1)
CeilLog2(n) == CeilLog2From(n, 0)

\* b xor 2^(i-1), for b < 2^i
XorBit(b, i) == IF (b \div Pow2(i - 1)) % 2 = 1 THEN b - Pow2(i - 1) ELSE b + Pow2(i - 1)

HashDbHash(h, key) == XXH64Mod137(key) % h.nhash

LinearDbHash(h, key) ==
    LET bktidx == XXH64Low4(key) % Pow2(h.i)
    IN  IF bktidx < h.nhash THEN bktidx ELSE XorBit(bktidx, h.i)

dbHash(v, h, key) == IF v = "static" THEN HashDbHash(h, key) ELSE LinearDbHash(h, key)

(***************************************************************************)
(* Record codec.                                                           *)
(***************************************************************************)
readPtr(f, offset) ==
    Let(ReadAt(f, offset, PTR_SZ), LAMBDA b :
        IF Len(b) = 0 THEN [err |-> "EOF", val |-> -1]
        ELSE IF Len(b) # PTR_SZ THEN [err |-> "Failed to read pointer data", val |-> -1]
        ELSE Let(parseInt(b), LAMBDA p :
                 [err |-> IF p.ok THEN Nil ELSE "ParseInt: invalid syntax", val |-> p.val]))

\* readIdx is only called with offset # 0 (every caller tests the offset first),
\* so the seek is always from the start of the file.
readIdx(f, h, offset) ==
    IF offset < 0 THEN [h |-> h, err |-> "seek: invalid argument", next |-> -1]
    ELSE
    Let(ReadAt(f, offset, PTR_SZ + IDXLEN_SZ), LAMBDA hdr :
    Let(hdr \o [i \in 1..(PTR_SZ + IDXLEN_SZ - Len(hdr)) |-> NUL], LAMBDA buf :
    Let([h EXCEPT !.idxoff = offset,
                  !.ptrval = parseInt(SubSeq(buf, 1, PTR_SZ)).val,
                  !.idxlen = parseInt(SubSeq(buf, PTR_SZ + 1, PTR_SZ + IDXLEN_SZ)).val], LAMBDA h1 :
    Let(ReadAt(f, offset + Len(hdr), h1.idxlen), LAMBDA body :
    Let(SplitSep(SubSeq(body, 1, Len(body) - 1)), LAMBDA parts :
    Let([h1 EXCEPT !.idxbuf = parts[1]], LAMBDA h2 :
    Let(parseInt(parts[2]), LAMBDA off :
    Let([h2 EXCEPT !.datoff = off.val], LAMBDA h3 :
    Let(parseInt(parts[3]), LAMBDA dl :
    Let([h3 EXCEPT !.datlen = dl.val], LAMBDA h4 :
        IF h1.idxlen < IDXLEN_MIN \/ h1.idxlen > IDXLEN_MAX
          THEN [h |-> h1, err |-> "Invalid index record length", next |-> -1]
        ELSE IF Len(body) = 0 THEN [h |-> h1, err |-> "EOF", next |-> -1]
        ELSE IF Len(body) # h1.idxlen
          THEN [h |-> h1, err |-> "Failed to read index record", next |-> -1]
        ELSE IF ~testNewLine(body)
          THEN [h |-> h1, err |-> "Corrupted index record", next |-> -1]
        ELSE IF Len(parts) > 3
          THEN [h |-> h1, err |-> "Invalid index record: too many separators", next |-> -1]
        ELSE IF Len(parts) < 2 THEN [h |-> h2, err |-> Panic, next |-> -1]
        ELSE IF ~off.ok THEN [h |-> h3, err |-> "ParseInt: invalid syntax", next |-> -1]
        ELSE IF h3.datoff < 0 THEN [h |-> h3, err |-> "Starting data offset < 0", next |-> -1]
        ELSE IF Len(parts) < 3 THEN [h |-> h3, err |-> Panic, next |-> -1]
        ELSE IF ~dl.ok THEN [h |-> h4, err |-> "ParseInt: invalid syntax", next |-> -1]
        ELSE IF h4.datlen < 0 \/ h4.datlen > DATLEN_MAX
          THEN [h |-> h4, err |-> "Invalid data record length", next |-> -1]
        ELSE [h |-> h4, err |-> Nil, next |-> h4.ptrval]))))))))))

readData(dat, h) ==
    Let(ReadAt(dat, h.datoff, h.datlen), LAMBDA b :
        IF h.datlen > 0 /\ Len(b) = 0 THEN [h |-> h, err |-> "EOF", val |-> <<>>]
        ELSE IF Len(b) # h.datlen
          THEN [h |-> h, err |-> "Failed to read data record", val |-> <<>>]
        ELSE IF ~testNewLine(b)
          THEN [h |-> h, err |-> "Corrupted data record: missing newline", val |-> <<>>]
        ELSE Let(SubSeq(b, 1, h.datlen - 1), LAMBDA d :
                 [h |-> [h EXCEPT !.datbuf = d], err |-> Nil, val |-> d]))

\* whence is "start" (io.SeekStart) or "end" (io.SeekEnd)
writeData(w, data, offset, whence) ==
    Let(IF whence = "end" THEN Lock(w, "dat", 0, 0, TRUE) ELSE w, LAMBDA w1 :
    Let(IF whence = "end" THEN Len(w.dat) + offset ELSE offset, LAMBDA newoffset :
    Let([w1 EXCEPT !.h.datoff = newoffset,
                   !.h.datlen = Len(data) + 1,
                   !.dat = WriteAt(@, newoffset, data \o <<NL>>)], LAMBDA w2 :
        IF whence = "end" THEN Unlock(w2, "dat", 0, 0) ELSE w2)))

\* the offset of the append guard lock of writeIdx
AppendLockOff(w) ==
    IF w.v = "static" THEN ((w.h.nhash + 1) * PTR_SZ) + 1
    ELSE w.h.hashoff + ((w.h.nhash + 1) * PTR_SZ) + 1

writeIdx(w, key, offset, whence, ptrval) ==
    Let(key \o <<SEP>> \o Itoa(w.h.datoff) \o <<SEP>> \o Itoa(w.h.datlen) \o <<NL>>, LAMBDA idxbuf :
    Let(Len(idxbuf), LAMBDA length :
    Let(PadInt(PTR_SZ, ptrval) \o PadInt(IDXLEN_SZ, length), LAMBDA indexRecPrefix :
    Let([w EXCEPT !.h.idxbuf = idxbuf], LAMBDA wb :
    Let(IF whence = "end" THEN Lock(wb, "idx", AppendLockOff(w), 0, TRUE) ELSE wb, LAMBDA w1 :
    Let(IF whence = "end" THEN Len(RecFile(w)) + offset ELSE offset, LAMBDA idxoff :
    Let(SetRecFile([w1 EXCEPT !.h.idxoff = idxoff],
                   WriteAt(RecFile(w), idxoff, indexRecPrefix \o idxbuf)), LAMBDA w2 :
    Let(IF whence = "end" THEN Unlock(w2, "idx", AppendLockOff(w), 0) ELSE w2, LAMBDA w3 :
        IF w.h.ptrval < 0 \/ w.h.ptrval > PTR_MAX
          THEN [w |-> w, err |-> "Invalid pointer"]
        ELSE IF length < IDXLEN_MIN \/ length > IDXLEN_MAX
          THEN [w |-> wb, err |-> "Invalid index record length"]
        ELSE [w |-> w3, err |-> Nil]))))))))

\* writePtr on the file f: the new contents of f
writePtr(f, offset, ptrval) ==
    IF ptrval < 0 \/ ptrval > PTR_MAX THEN [f |-> f, err |-> "Invalid ptrval"]
    ELSE [f |-> WriteAt(f, offset, PadInt(PTR_SZ, ptrval)), err |-> Nil]

writePtrIdx(w, offset, ptrval) ==
    LET r == writePtr(w.idx, offset, ptrval) IN [w |-> [w EXCEPT !.idx = r.f], err |-> r.err]

writePtrBkt(w, offset, ptrval) ==
    LET r == writePtr(w.bkt, offset, ptrval) IN [w |-> [w EXCEPT !.bkt = r.f], err |-> r.err]


(***************************************************************************)
(* Static hash index (src/index/hash_index.go).                            *)
(***************************************************************************)
\* the chain walk of findAndLock: follows NEXT_PTR from offset until the key
\* is found (offset # 0) or the chain ends (offset = 0); a chain that leads
\* back to a record already visited is walked forever
RECURSIVE ChainWalk(_, _, _, _, _)
ChainWalk(f, h, key, offset, seen) ==
    IF offset = 0 THEN [h |-> h, offset |-> 0, err |-> Nil]
    ELSE IF offset \in seen THEN [h |-> h, offset |-> offset, err |-> Hang]
    ELSE Let(readIdx(f, h, offset), LAMBDA r :
             IF r.err # Nil THEN [h |-> r.h, offset |-> offset, err |-> r.err]
             ELSE IF r.h.idxbuf = key THEN [h |-> r.h, offset |-> offset, err |-> Nil]
             ELSE ChainWalk(f, [r.h EXCEPT !.ptroff = offset], key, r.next,
                            seen \cup {offset}))

\* findAndLock with the comparison of the record's key with the key sought
\* always failing: the chain is locked, the key is never found
HashFindAndLockNoMatch(w, key, isWriteLock) ==
    LET chainoff == (HashDbHash(w.h, key) * PTR_SZ) + w.h.hashoff
        w1 == Lock([w EXCEPT !.h.chainoff = chainoff, !.h.ptroff = chainoff],
                   "idx", chainoff, 1, isWriteLock)
    IN  [w |-> w1, found |-> FALSE, err |-> Nil]

HashFindAndLock(w, key, isWriteLock) ==
    Let((HashDbHash(w.h, key) * PTR_SZ) + w.h.hashoff, LAMBDA chainoff :
    Let(Lock([w EXCEPT !.h.chainoff = chainoff, !.h.ptroff = chainoff],
             "idx", chainoff, 1, isWriteLock), LAMBDA w1 :
    Let(readPtr(w1.idx, w1.h.ptroff), LAMBDA p :
    Let(ChainWalk(w1.idx, w1.h, key, p.val, {}), LAMBDA c :
        IF p.err # Nil THEN [w |-> w1, found |-> FALSE, err |-> Nil]
        ELSE [w |-> [w1 EXCEPT !.h = c.h],
              found |-> (c.err = Nil /\ c.offset # 0),
              err |-> c.err]))))

HashFetch(w, key) ==
    Let(HashFindAndLock(w, key, FALSE), LAMBDA f :
    Let(readData(f.w.dat, f.w.h), LAMBDA d :
    Let(f.w.h.chainoff, LAMBDA chainoff :
        IF f.err \in {Hang, Panic} THEN [w |-> f.w, val |-> <<>>, err |-> f.err]
        ELSE IF f.err # Nil
          THEN [w |-> Unlock(f.w, "idx", chainoff, 1), val |-> <<>>, err |-> f.err]
        ELSE IF ~f.found
          THEN [w |-> Unlock(f.w, "idx", chainoff, 1), val |-> <<>>, err |-> Nil]
        ELSE [w |-> Unlock([f.w EXCEPT !.h = d.h], "idx", chainoff, 1),
              val |-> d.val, err |-> d.err])))

Hash_delete(w) ==
    Let(FreeOff("static"), LAMBDA FREE_OFF :
    Let([w EXCEPT !.h.datbuf = Spaces(Len(w.h.datbuf)),
                  !.h.idxbuf = Spaces(Len(w.h.idxbuf))], LAMBDA w0 :
    Let(Lock(w0, "idx", FREE_OFF, 1, TRUE), LAMBDA w1 :
    Let(writeData(w1, w1.h.datbuf, w1.h.datoff, "start"), LAMBDA w2 :
    Let(readPtr(w2.idx, FREE_OFF), LAMBDA freeptr :
    Let(w2.h.ptrval, LAMBDA saveptr :
    Let(writeIdx(w2, w2.h.idxbuf, w2.h.idxoff, "start", freeptr.val), LAMBDA wi :
    Let(writePtrIdx(wi.w, FREE_OFF, wi.w.h.idxoff), LAMBDA p1 :
    Let(writePtrIdx(p1.w, p1.w.h.ptroff, saveptr), LAMBDA p2 :
        IF freeptr.err # Nil
          THEN [w |-> Unlock(w2, "idx", FREE_OFF, 1), err |-> freeptr.err]
        ELSE IF wi.err # Nil THEN [w |-> Unlock(wi.w, "idx", FREE_OFF, 1), err |-> wi.err]
        ELSE IF p1.err # Nil THEN [w |-> Unlock(p1.w, "idx", FREE_OFF, 1), err |-> p1.err]
        ELSE [w |-> Unlock(p2.w, "idx", FREE_OFF, 1), err |-> p2.err])))))))))

HashDelete(w, key) ==
    Let(HashFindAndLock(w, key, TRUE), LAMBDA f :
    Let(Hash_delete(f.w), LAMBDA d :
        IF f.err # Nil THEN [w |-> f.w, val |-> <<>>, err |-> f.err]
        ELSE IF f.found
          THEN [w |-> Unlock(d.w, "idx", d.w.h.chainoff, 1), val |-> <<>>, err |-> d.err]
        ELSE [w |-> Unlock(f.w, "idx", f.w.h.chainoff, 1), val |-> <<>>, err |-> Nil]))

\* the free-list walk of findFree: stops at the first slot whose key length
\* and data length match (offset # 0) or at the end of the list (offset = 0).
\* The static variant ignores the error of readIdx and goes on with what the
\* handle fields hold; the linear variant returns it.
RECURSIVE FreeWalk(_, _, _, _, _, _, _, _)
FreeWalk(f, h, keylen, datlen, offset, saveOffset, seen, returnErr) ==
    IF offset = 0 THEN [h |-> h, offset |-> 0, saveOffset |-> saveOffset, err |-> Nil]
    ELSE IF offset \in seen
      THEN [h |-> h, offset |-> offset, saveOffset |-> saveOffset, err |-> Hang]
    ELSE Let(readIdx(f, h, offset), LAMBDA r :
             IF r.err = Panic \/ (r.err # Nil /\ returnErr)
               THEN [h |-> r.h, offset |-> offset, saveOffset |-> saveOffset, err |-> r.err]
             ELSE IF Len(r.h.idxbuf) = keylen /\ r.h.datlen = datlen
               THEN [h |-> r.h, offset |-> offset, saveOffset |-> saveOffset, err |-> Nil]
             ELSE FreeWalk(f, r.h, keylen, datlen, r.next, offset,
                           seen \cup {offset}, returnErr))

HashFindFree(w, keylen, datlen) ==
    Let(FreeOff("static"), LAMBDA FREE_OFF :
    Let(Lock(w, "idx", FREE_OFF, 1, TRUE), LAMBDA w1 :
    Let(readPtr(w1.idx, FREE_OFF), LAMBDA p :
    Let(FreeWalk(w1.idx, w1.h, keylen, datlen, p.val, FREE_OFF, {}, FALSE), LAMBDA c :
    Let([w1 EXCEPT !.h = c.h], LAMBDA w2 :
    Let(writePtrIdx(w2, c.saveOffset, c.h.ptrval), LAMBDA wp :
        IF c.err \in {Hang, Panic} THEN [w |-> w2, found |-> FALSE, err |-> c.err]
        ELSE IF c.offset # 0
          THEN [w |-> Unlock(wp.w, "idx", FREE_OFF, 1), found |-> TRUE, err |-> Nil]
        ELSE [w |-> Unlock(w2, "idx", FREE_OFF, 1), found |-> FALSE, err |-> Nil]))))))

\* the three steps that write a record and link it at the head of its chain:
\* writeData, writeIdx, writePtr(chainoff, idxoff), each returning its error
HashLink(w, key, value, datoff, idxoff, whence, ptrval) ==
    Let(writeData(w, value, datoff, whence), LAMBDA wd :
    Let(writeIdx(wd, key, idxoff, whence, ptrval), LAMBDA wi :
    Let(writePtrIdx(wi.w, wi.w.h.chainoff, wi.w.h.idxoff), LAMBDA wp :
        IF wi.err # Nil THEN wi ELSE wp)))

HashStore(w, key, value, op) ==
    Let(Len(key), LAMBDA keyLen :
    Let(Len(value), LAMBDA valueLen :
    Let(HashFindAndLock(w, key, TRUE), LAMBDA f :
    LET chainUnlock(x) == Unlock(x, "idx", x.h.chainoff, 1) IN
    \* not found
    Let(readPtr(f.w.idx, f.w.h.chainoff), LAMBDA ptrval :
    Let(HashFindFree(f.w, keyLen, valueLen), LAMBDA ff :
    Let(HashLink(ff.w, key, value, 0, 0, "end", ptrval.val), LAMBDA app :
    Let(HashLink(ff.w, key, value, ff.w.h.datoff, ff.w.h.idxoff, "start", ptrval.val), LAMBDA reuse :
    \* found
    Let(Hash_delete(f.w), LAMBDA d :
    Let(readPtr(d.w.idx, d.w.h.chainoff), LAMBDA ptrval2 :
    Let(writeData(d.w, value, 0, "end"), LAMBDA wd :
    Let(writeIdx(wd, key, 0, "end", ptrval2.val), LAMBDA wi :
    Let(writePtrIdx(wi.w, wi.w.h.chainoff, wi.w.h.idxoff), LAMBDA wp :
        IF valueLen < DATLEN_MIN \/ valueLen > DATLEN_MAX
          THEN [w |-> w, err |-> "Invalid data length"]
        ELSE IF f.err \in {Hang, Panic} THEN [w |-> f.w, err |-> f.err]
        ELSE IF f.err # Nil THEN [w |-> chainUnlock(f.w), err |-> f.err]
        ELSE IF ~f.found THEN
            IF op = "update" THEN [w |-> chainUnlock(f.w), err |-> "does not exist"]
            ELSE IF ptrval.err # Nil THEN [w |-> chainUnlock(f.w), err |-> ptrval.err]
            ELSE IF ff.err \in {Hang, Panic} THEN [w |-> ff.w, err |-> ff.err]
            ELSE IF ff.err # Nil THEN [w |-> chainUnlock(ff.w), err |-> ff.err]
            ELSE IF ~ff.found THEN [w |-> chainUnlock(app.w), err |-> app.err]
            ELSE [w |-> chainUnlock(reuse.w), err |-> reuse.err]
        ELSE
            IF op = "insert" THEN [w |-> chainUnlock(f.w), err |-> "already exists"]
            ELSE IF valueLen # f.w.h.datlen THEN
                IF d.err # Nil THEN [w |-> chainUnlock(d.w), err |-> d.err]
                ELSE IF ptrval2.err # Nil THEN [w |-> chainUnlock(d.w), err |-> ptrval2.err]
                ELSE [w |-> chainUnlock(wp.w), err |-> Nil]
            ELSE [w |-> chainUnlock(writeData(f.w, value, f.w.h.datoff, "start")),
                  err |-> Nil]))))))))))))

\* FetchAll: the buckets i .. nhash-1, startOff being the pointer of bucket i - 1;
\* recs is the map built so far, as a set of <<key, value>> pairs
RECURSIVE FetchAllChain(_, _, _, _, _)
FetchAllChain(w, offset, recs, seen, startOff) ==
    Let(readIdx(RecFile(w), w.h, offset), LAMBDA r :
    Let(readData(w.dat, r.h), LAMBDA d :
    Let({p \in recs : p[1] # d.h.idxbuf} \cup {<<d.h.idxbuf, d.val>>}, LAMBDA recs2 :
        IF offset \in seen THEN [w |-> w, recs |-> recs, err |-> Hang]
        ELSE IF r.err = Panic THEN [w |-> [w EXCEPT !.h = r.h], recs |-> recs, err |-> Panic]
        ELSE IF r.err # Nil
          THEN [w |-> Unlock([w EXCEPT !.h = r.h], "idx", startOff, 1),
                recs |-> recs, err |-> r.err]
        ELSE IF d.err # Nil
          THEN [w |-> Unlock([w EXCEPT !.h = d.h], "idx", startOff, 1),
                recs |-> recs, err |-> d.err]
        ELSE IF r.next # 0
          THEN FetchAllChain([w EXCEPT !.h = d.h], r.next, recs2, seen \cup {offset}, startOff)
        ELSE [w |-> Unlock([w EXCEPT !.h = d.h], "idx", startOff, 1),
              recs |-> recs2, err |-> Nil])))

\* the iterations of FetchAll's loop over the buckets i .. j-1 whose chain pointer
\* is 0: each read-locks the pointer's first byte and unlocks it again
RECURSIVE CutBytes(_, _, _, _)
CutBytes(ls, i, j, off0) ==
    IF i >= j \/ ls = {} THEN ls
    ELSE CutBytes(CutAll(ls, [lo |-> off0 + ((i + 1) * PTR_SZ), len |-> 1, wr |-> FALSE]),
                  i + 1, j, off0)

SkipEmpty(w, i, j, off0) ==
    LET conflict == \E b \in i..(j - 1), o \in w.oth["idx"] :
                        o.wr /\ Overlap(o, [lo |-> off0 + ((b + 1) * PTR_SZ), len |-> 1])
    IN  [w EXCEPT !.blocked = @ \/ conflict, !.lk["idx"] = CutBytes(@, i, j, off0)]

\* FetchAll from bucket i on; off0 is the offset of the free-list pointer, which
\* the pointer of bucket b follows at off0 + (b + 1) * PTR_SZ
RECURSIVE FetchAllFrom(_, _, _, _)
FetchAllFrom(w, i, off0, recs) ==
    LET ptrOff(b) == off0 + ((b + 1) * PTR_SZ) IN
    Let({b \in i..(w.h.nhash - 1) :
            LET q == readPtr(w.idx, ptrOff(b)) IN q.err # Nil \/ q.val # 0}, LAMBDA busy :
    Let(CHOOSE b \in busy : \A c \in busy : b <= c, LAMBDA j :
    Let(ptrOff(j), LAMBDA startOff :
    Let(Lock(SkipEmpty(w, i, j, off0), "idx", startOff, 1, FALSE), LAMBDA w1 :
    Let(readPtr(w1.idx, startOff), LAMBDA p :
    Let(FetchAllChain(w1, p.val, recs, {}, startOff), LAMBDA c :
        IF busy = {} THEN [w |-> SkipEmpty(w, i, w.h.nhash, off0), recs |-> recs, err |-> Nil]
        ELSE IF p.err # Nil
          THEN [w |-> Unlock(w1, "idx", startOff, 1), recs |-> {}, err |-> p.err]
        ELSE IF c.err # Nil THEN [w |-> c.w, recs |-> {}, err |-> c.err]
        ELSE FetchAllFrom(c.w, j + 1, off0, c.recs)))))))

HashFetchAll(w) == FetchAllFrom(w, 0, FreeOff("static"), {})

\* Open: mode is "create" (O_RDWR|O_CREATE) or "rdwr" (O_RDWR)
HashWriteHeaderNoNewline(f) == WriteAt(f, 0, PadInt(idxtype_sz, HashIndexType))
HashWriteHeader(f) == WriteAt(f, 0, PadInt(idxtype_sz, HashIndexType) \o <<NL>>)

HashOpen(w, mode) ==
    Let([w.h EXCEPT !.nhash = HASHTABLE_SIZE, !.hashoff = HashOff("static")], LAMBDA h0 :
    Let(Lock([w EXCEPT !.h = h0], "idx", 0, 0, TRUE), LAMBDA w1 :
    Let(HashWriteHeader(w1.idx), LAMBDA hdr :
    Let([i \in 1..((HASHTABLE_SIZE + 1) * PTR_SZ) |->
            IF i % PTR_SZ = 0 THEN "0" ELSE SP], LAMBDA ptrs :
    Let(IF Len(w1.idx) = 0
        THEN [w1 EXCEPT !.idx = WriteAt(hdr, Len(hdr), ptrs \o <<NL>>)]
        ELSE w1, LAMBDA w2 :
        IF mode = "create" THEN [w |-> Unlock(w2, "idx", 0, 0), err |-> Nil]
        ELSE [w |-> [w EXCEPT !.h = h0], err |-> Nil])))))


(***************************************************************************)
(* Linear hash index (src/index/linear_hash_index/linear_hash_index.go).   *)
(***************************************************************************)
readHeader(w, doLock) ==
    Let(IF doLock THEN Lock(w, "idx", 0, 0, TRUE) ELSE w, LAMBDA w1 :
    Let(ReadAt(w1.idx, 0, idxtype_sz + (3 * nbuckets_sz)), LAMBDA b :
    Let(b \o [i \in 1..(idxtype_sz + (3 * nbuckets_sz) - Len(b)) |-> NUL], LAMBDA buf :
    Let(parseInt(SubSeq(buf, idxtype_sz + 1, idxtype_sz + nbuckets_sz)).val, LAMBDA nhash :
    Let(parseInt(SubSeq(buf, idxtype_sz + nbuckets_sz + 1,
                        idxtype_sz + (2 * nbuckets_sz))).val, LAMBDA s :
    Let(parseInt(SubSeq(buf, idxtype_sz + (2 * nbuckets_sz) + 1,
                        idxtype_sz + (3 * nbuckets_sz))).val, LAMBDA nrecords :
        [w1 EXCEPT !.h.nhash = nhash, !.h.s = s, !.h.nrecords = nrecords,
                   !.h.i = CeilLog2(nhash)]))))))

LinearWriteHeader(w) ==
    [w EXCEPT !.idx = WriteAt(@, 0, PadInt(idxtype_sz, 1) \o PadInt(nbuckets_sz, w.h.nhash)
                                    \o PadInt(nbuckets_sz, w.h.s)
                                    \o PadInt(nbuckets_sz, w.h.nrecords) \o <<NL>>)]

\* updateHeader writing the bucket count that the header already has
updateHeaderKeepsNHash(w, change) ==
    LinearWriteHeader([w EXCEPT !.h.nrecords = IF change > 0 THEN @ + 1 ELSE @ - 1,
                                !.h.nhash = readHeader(w, FALSE).h.nhash])

updateHeader(w, change) ==
    LinearWriteHeader([w EXCEPT !.h.nrecords = IF change > 0 THEN @ + 1 ELSE @ - 1])

LinearOpen(w, mode) ==
    Let([w.h EXCEPT !.nhash = linear_hashtable_size, !.hashoff = HashOff("linear"),
                    !.nrecords = 0, !.i = 1, !.s = 0], LAMBDA h0 :
    Let([w EXCEPT !.h = h0], LAMBDA w0 :
    Let(Lock(w0, "idx", 0, 0, TRUE), LAMBDA w1 :
    Let(PadInt(idxtype_sz, 1) \o PadInt(nbuckets_sz, linear_hashtable_size)
        \o PadInt(nbuckets_sz, 0) \o PadInt(nbuckets_sz, 0) \o <<NL>>, LAMBDA header :
    Let([i \in 1..((linear_hashtable_size + 1) * PTR_SZ) |->
            IF i % PTR_SZ = 0 THEN "0" ELSE SP], LAMBDA ptrs :
    Let(IF Len(w1.idx) = 0
        THEN [w1 EXCEPT !.idx = header \o ptrs, !.bkt = WriteAt(@, 0, <<NL>>)]
        ELSE w1, LAMBDA w2 :
        IF mode = "create" THEN [w |-> Unlock(w2, "idx", 0, 0), err |-> Nil]
        ELSE [w |-> Unlock(readHeader(w0, TRUE), "idx", 0, 0), err |-> Nil]))))))

LinearFindAndLock(w, key, isWriteLock) ==
    Let((LinearDbHash(w.h, key) * PTR_SZ) + w.h.hashoff, LAMBDA chainoff :
    Let(Lock([w EXCEPT !.h.chainoff = chainoff, !.h.ptroff = chainoff],
             "idx", chainoff, 1, isWriteLock), LAMBDA w1 :
    Let(readPtr(w1.idx, w1.h.ptroff), LAMBDA p :
    Let(ChainWalk(w1.bkt, w1.h, key, p.val, {}), LAMBDA c :
        IF p.err # Nil THEN [w |-> w1, found |-> FALSE, err |-> p.err]
        ELSE [w |-> [w1 EXCEPT !.h = c.h],
              found |-> (c.err = Nil /\ c.offset # 0),
              err |-> c.err]))))

LinearFetch(w, key) ==
    Let(readHeader(w, TRUE), LAMBDA w0 :
    Let(LinearFindAndLock(w0, key, FALSE), LAMBDA f :
    Let(readData(f.w.dat, f.w.h), LAMBDA d :
    Let(f.w.h.chainoff, LAMBDA chainoff :
        IF f.err \in {Hang, Panic} THEN [w |-> f.w, val |-> <<>>, err |-> f.err]
        ELSE IF f.err # Nil
          THEN [w |-> Unlock(f.w, "idx", chainoff, 1), val |-> <<>>, err |-> f.err]
        ELSE IF ~f.found
          THEN [w |-> Unlock(f.w, "idx", chainoff, 1), val |-> <<>>, err |-> Nil]
        ELSE IF d.err # Nil
          THEN [w |-> Unlock([f.w EXCEPT !.h = d.h], "idx", chainoff, 1),
                val |-> <<>>, err |-> d.err]
        ELSE [w |-> Unlock(Unlock([f.w EXCEPT !.h = d.h], "idx", 0, 0), "idx", chainoff, 1),
              val |-> d.val, err |-> Nil]))))

Linear_delete(w) ==
    Let(FreeOff("linear"), LAMBDA free_off :
    Let([w EXCEPT !.h.datbuf = Spaces(Len(w.h.datbuf)),
                  !.h.idxbuf = Spaces(Len(w.h.idxbuf))], LAMBDA w0 :
    Let(Lock(w0, "idx", free_off, 1, TRUE), LAMBDA w1 :
    Let(writeData(w1, w1.h.datbuf, w1.h.datoff, "start"), LAMBDA w2 :
    Let(readPtr(w2.idx, free_off), LAMBDA freeptr :
    Let(w2.h.ptrval, LAMBDA saveptr :
    Let(writeIdx(w2, w2.h.idxbuf, w2.h.idxoff, "start", freeptr.val), LAMBDA wi :
    Let(writePtrIdx(wi.w, free_off, wi.w.h.idxoff), LAMBDA p1 :
    Let(IF p1.w.h.ptroff # p1.w.h.chainoff
        THEN writePtrBkt(p1.w, p1.w.h.ptroff, saveptr)
        ELSE writePtrIdx(p1.w, p1.w.h.ptroff, saveptr), LAMBDA p2 :
        IF freeptr.err # Nil
          THEN [w |-> Unlock(w2, "idx", free_off, 1), err |-> freeptr.err]
        ELSE IF wi.err # Nil THEN [w |-> Unlock(wi.w, "idx", free_off, 1), err |-> wi.err]
        ELSE IF p1.err # Nil THEN [w |-> Unlock(p1.w, "idx", free_off, 1), err |-> p1.err]
        ELSE [w |-> Unlock(p2.w, "idx", free_off, 1), err |-> p2.err])))))))))

delete2(w, key) ==
    Let(LinearFindAndLock(w, key, TRUE), LAMBDA f :
    Let(Linear_delete(f.w), LAMBDA d :
        IF f.err # Nil THEN [w |-> f.w, found |-> f.found, err |-> f.err]
        ELSE IF f.found
          THEN [w |-> IF d.err = Panic THEN d.w ELSE Unlock(d.w, "idx", d.w.h.chainoff, 1),
                found |-> TRUE, err |-> d.err]
        ELSE [w |-> Unlock(f.w, "idx", f.w.h.chainoff, 1), found |-> FALSE, err |-> Nil]))

LinearDelete(w, key) ==
    Let(readHeader(w, TRUE), LAMBDA w0 :
    Let(delete2(w0, key), LAMBDA d :
        IF d.err = Hang THEN [w |-> d.w, val |-> <<>>, err |-> Hang]
        ELSE [w |-> Unlock(d.w, "idx", 0, 0), val |-> <<>>, err |-> d.err]))

LinearFindFree(w, keylen, datlen) ==
    Let(FreeOff("linear"), LAMBDA free_off :
    Let(Lock(w, "idx", free_off, 1, TRUE), LAMBDA w1 :
    Let(readPtr(w1.idx, free_off), LAMBDA p :
    Let(FreeWalk(w1.bkt, w1.h, keylen, datlen, p.val, free_off, {}, TRUE), LAMBDA c :
    Let([w1 EXCEPT !.h = c.h], LAMBDA w2 :
    Let(writePtrBkt(w2, c.saveOffset, c.h.ptrval), LAMBDA wp :
        IF c.err \in {Hang, Panic} THEN [w |-> w2, found |-> FALSE, err |-> c.err]
        ELSE IF c.err # Nil
          THEN [w |-> Unlock(w2, "idx", free_off, 1), found |-> FALSE, err |-> c.err]
        ELSE IF c.offset # 0
          THEN [w |-> Unlock(wp.w, "idx", free_off, 1), found |-> TRUE, err |-> Nil]
        ELSE [w |-> Unlock(w2, "idx", free_off, 1), found |-> FALSE, err |-> Nil]))))))

LinearLink(w, key, value, datoff, idxoff, whence, ptrval) ==
    Let(writeData(w, value, datoff, whence), LAMBDA wd :
    Let(writeIdx(wd, key, idxoff, whence, ptrval), LAMBDA wi :
    Let(writePtrIdx(wi.w, wi.w.h.chainoff, wi.w.h.idxoff), LAMBDA wp :
        IF wi.err # Nil THEN wi ELSE wp)))

LinearStore(w, key, value, op) ==
    Let(readHeader(w, TRUE), LAMBDA w0 :
    Let(Len(key), LAMBDA keyLen :
    Let(Len(value), LAMBDA valueLen :
    Let(LinearFindAndLock(w0, key, TRUE), LAMBDA f :
    LET chainUnlock(x) == Unlock(x, "idx", x.h.chainoff, 1) IN
    \* not found
    Let(readPtr(f.w.idx, f.w.h.chainoff), LAMBDA ptrval :
    Let(LinearFindFree(f.w, keyLen, valueLen), LAMBDA ff :
    Let(LinearLink(ff.w, key, value, 0, 0, "end", ptrval.val), LAMBDA app :
    Let(LinearLink(ff.w, key, value, ff.w.h.datoff, ff.w.h.idxoff, "start",
                   ptrval.val), LAMBDA reuse :
    \* found
    Let(Linear_delete(f.w), LAMBDA d :
    Let(readPtr(d.w.idx, d.w.h.chainoff), LAMBDA ptrval2 :
    Let(writeData(d.w, value, 0, "end"), LAMBDA wd :
    Let(writeIdx(wd, key, 0, "end", ptrval2.val), LAMBDA wi :
    Let(writePtrIdx(wi.w, wi.w.h.chainoff, wi.w.h.idxoff), LAMBDA wp :
        IF valueLen < DATLEN_MIN \/ valueLen > DATLEN_MAX
          THEN [w |-> w0, err |-> "Invalid data length"]
        ELSE IF f.err \in {Hang, Panic} THEN [w |-> f.w, err |-> f.err]
        ELSE IF f.err # Nil THEN [w |-> chainUnlock(f.w), err |-> f.err]
        ELSE IF ~f.found THEN
            IF op = "update" THEN [w |-> chainUnlock(f.w), err |-> "does not exist"]
            ELSE IF ptrval.err # Nil THEN [w |-> chainUnlock(f.w), err |-> ptrval.err]
            ELSE IF ff.err \in {Hang, Panic} THEN [w |-> ff.w, err |-> ff.err]
            ELSE IF ff.err # Nil THEN [w |-> chainUnlock(ff.w), err |-> ff.err]
            ELSE IF ~ff.found THEN [w |-> chainUnlock(app.w), err |-> app.err]
            ELSE [w |-> chainUnlock(reuse.w), err |-> reuse.err]
        ELSE
            IF op = "insert" THEN [w |-> chainUnlock(f.w), err |-> "already exists"]
            ELSE IF valueLen # f.w.h.datlen THEN
                IF d.err # Nil THEN [w |-> chainUnlock(d.w), err |-> d.err]
                ELSE IF ptrval2.err # Nil THEN [w |-> chainUnlock(d.w), err |-> ptrval2.err]
                ELSE [w |-> chainUnlock(wp.w), err |-> Nil]
            ELSE [w |-> chainUnlock(writeData(f.w, value, f.w.h.datoff, "start")),
                  err |-> Nil])))))))))))))

\* the rehash loop of split; newInBkt / oldInBkt tell whether newChainPtrOffFile /
\* oldChainPtrOffFile is the .bkt file (else the .idx file); fuel bounds the
\* number of records visited (a chain with a cycle is walked forever)
RECURSIVE SplitLoop(_, _, _, _, _, _, _)
SplitLoop(w, offset, newInBkt, newChainPtrOff, oldInBkt, oldS, fuel) ==
    Let(readIdx(w.bkt, w.h, offset), LAMBDA r :
    Let([w EXCEPT !.h = r.h], LAMBDA w1 :
    Let(LinearDbHash(w1.h, w1.h.idxbuf), LAMBDA chainOff :
    Let(IF newInBkt THEN writePtrBkt(w1, newChainPtrOff, offset)
        ELSE writePtrIdx(w1, newChainPtrOff, offset), LAMBDA a :
    Let(IF oldInBkt THEN writePtrBkt(a.w, a.w.h.ptroff, r.next)
        ELSE writePtrIdx(a.w, a.w.h.ptroff, r.next), LAMBDA b :
        IF offset = 0 THEN [w |-> w, err |-> Nil]
        ELSE IF fuel = 0 THEN [w |-> w, err |-> Hang]
        ELSE IF r.err # Nil THEN [w |-> w1, err |-> r.err]
        ELSE IF chainOff # oldS THEN
            IF a.err # Nil THEN a
            ELSE IF b.err # Nil THEN b
            ELSE SplitLoop(b.w, r.next, TRUE, offset, oldInBkt, oldS, fuel - 1)
        ELSE SplitLoop([w1 EXCEPT !.h.ptroff = offset], r.next, newInBkt, newChainPtrOff,
                       TRUE, oldS, fuel - 1))))))

\* self.i and self.s after nhash++ (oldS the split pointer before)
NextINoCarry(i, nhash) == i
NextI(i, nhash) == IF nhash > Pow2(i) THEN i + 1 ELSE i
NextSNoReset(oldS, nhash) == oldS + 1
NextS(oldS, nhash) == IF (oldS + 1) * 2 = nhash THEN 0 ELSE oldS + 1

\* split without the loop that rehashes the chain of the old bucket
splitNoRehash(w) ==
    [w |-> [w EXCEPT !.idx = WriteAt(@, Len(w.idx), PadInt(PTR_SZ, 0)),
                     !.h.nhash = w.h.nhash + 1,
                     !.h.i = NextI(w.h.i, w.h.nhash + 1),
                     !.h.s = NextS(w.h.s, w.h.nhash + 1),
                     !.h.ptroff = (w.h.s * PTR_SZ) + w.h.hashoff],
     err |-> Nil]

split(w) ==
    Let(Len(w.idx), LAMBDA newChainPtrOff :
    Let([w EXCEPT !.idx = WriteAt(@, newChainPtrOff, PadInt(PTR_SZ, 0))], LAMBDA w1 :
    Let(w.h.nhash + 1, LAMBDA nhash :
    Let(NextI(w.h.i, nhash), LAMBDA i :
    Let(w.h.s, LAMBDA oldS :
    Let(NextS(oldS, nhash), LAMBDA s :
    Let((oldS * PTR_SZ) + w.h.hashoff, LAMBDA oldChainPtrOff :
    Let(readPtr(w1.idx, oldChainPtrOff), LAMBDA offset :
    Let([w1 EXCEPT !.h.nhash = nhash, !.h.i = i, !.h.s = s,
                   !.h.ptroff = oldChainPtrOff], LAMBDA w2 :
        IF offset.err # Nil THEN [w |-> w2, err |-> offset.err]
        ELSE SplitLoop(w2, offset.val, FALSE, newChainPtrOff, FALSE, oldS, Len(w.bkt)))))))))))

\* Insert after store has returned nil: the split when the load calls for it,
\* the header update and the deferred unlock of the header
\* Insert with the load taken before the record is counted
LinearGrowBeforeIncrement(w) ==
    Let(split(w), LAMBDA sp :
    LET hdrUnlock(x) == Unlock(x, "idx", 0, 0) IN
        IF w.h.nrecords \div w.h.nhash >= 1 THEN
            IF sp.err = Hang THEN sp
            ELSE IF sp.err # Nil
              THEN [w |-> IF sp.err = Panic THEN sp.w ELSE hdrUnlock(updateHeader(sp.w, 1)),
                    err |-> sp.err]
            ELSE [w |-> hdrUnlock(updateHeader(sp.w, 1)), err |-> Nil]
        ELSE [w |-> hdrUnlock(updateHeader(w, 1)), err |-> Nil])

LinearGrow(w) ==
    Let(split(w), LAMBDA sp :
    LET hdrUnlock(x) == Unlock(x, "idx", 0, 0) IN
        IF (w.h.nrecords + 1) \div w.h.nhash >= 1 THEN
            IF sp.err = Hang THEN sp
            ELSE IF sp.err # Nil
              THEN [w |-> IF sp.err = Panic THEN sp.w ELSE hdrUnlock(updateHeader(sp.w, 1)),
                    err |-> sp.err]
            ELSE [w |-> hdrUnlock(updateHeader(sp.w, 1)), err |-> Nil]
        ELSE [w |-> hdrUnlock(updateHeader(w, 1)), err |-> Nil])

LinearInsert(w, key, value) ==
    Let(LinearStore(w, key, value, "insert"), LAMBDA st :
        IF st.err # Nil THEN st ELSE LinearGrow(st.w))

LinearFetchAll(w) == FetchAllFrom(w, 0, FreeOff("linear"), {})


(***************************************************************************)
(* The database as a state machine: operations of open handles, each run   *)
(* to completion.  An operation whose blocking lock request meets another  *)
(* handle's lock is not enabled (the caller waits).                        *)
(***************************************************************************)
VARIABLES variant, idx, bkt, dat, hnd, lks, budget, last, exp, pc

vars == <<variant, idx, bkt, dat, hnd, lks, budget, last, exp, pc>>

Handles == 1..NHandles
Keys == {<<"r", "f">>, <<"r", "j">>, <<"r", "m">>}
Values == {<<"v", "v">>, <<"z", "z">>, <<"w", "w", "w">>}

NewHandle ==
    [st |-> "new", nhash |-> 0, hashoff |-> 0, nrecords |-> 0, i |-> 0, s |-> 0,
     chainoff |-> 0, ptroff |-> 0, ptrval |-> 0, idxoff |-> 0, idxlen |-> 0,
     idxbuf |-> <<>>, datoff |-> 0, datlen |-> 0, datbuf |-> <<>>]

NoLocks == [idx |-> {}, dat |-> {}]

World(hd) ==
    [v |-> variant, idx |-> idx, bkt |-> bkt, dat |-> dat, h |-> hnd[hd], lk |-> lks[hd],
     oth |-> [f \in {"idx", "dat"} |-> UNION {lks[o][f] : o \in Handles \ {hd}}],
     blocked |-> FALSE]

EmptyWorld(v) ==
    [v |-> v, idx |-> <<>>, bkt |-> <<>>, dat |-> <<>>, h |-> NewHandle, lk |-> NoLocks,
     oth |-> NoLocks, blocked |-> FALSE]

OpenIn(w, mode) == IF w.v = "static" THEN HashOpen(w, mode) ELSE LinearOpen(w, mode)

\* what is known of a key from the operations that returned: absent, stored by
\* the last successful insert / update / upsert (val, and old, the value it had
\* before), deleted by a successful delete of a stored key, or unknown after an
\* operation on it that failed other than for a semantic reason
Absent == [by |-> "absent", val |-> <<>>, old |-> <<>>]
Present(e) == e.by \in {"insert", "update", "upsert"}
SemanticErrs == {"already exists", "does not exist", "Invalid data length"}

NoOp == [h |-> 0, op |-> "none", key |-> <<>>, arg |-> <<>>, val |-> <<>>, err |-> Nil,
         recs |-> {}]

\* a new database: handle 1 has created it (O_RDWR|O_CREATE on files that did
\* not exist), then the other handles have opened it (O_RDWR)
OpenSecond(o) == OpenIn([o.w EXCEPT !.h = NewHandle, !.lk = NoLocks, !.oth = o.w.lk], "rdwr")

InitFiles(o, o2) ==
    /\ idx = o2.w.idx
    /\ bkt = o2.w.bkt
    /\ dat = o2.w.dat
    /\ hnd = [hd \in Handles |-> [(IF hd = 1 THEN o.w.h ELSE o2.w.h) EXCEPT !.st = "open"]]
    /\ lks = [hd \in Handles |-> IF hd = 1 THEN o.w.lk ELSE o2.w.lk]

InitDB ==
    /\ variant \in {"static", "linear"}
    /\ InitFiles(OpenIn(EmptyWorld(variant), "create"),
                 OpenSecond(OpenIn(EmptyWorld(variant), "create")))
    /\ last = NoOp
    /\ exp = [k \in Keys |-> Absent]
    /\ pc = [hd \in Handles |-> 1]

Init == InitDB /\ budget = MaxOps

\* the effect of an operation on what is known of its key
Known(e, op, arg, err) ==
    IF op \in {"Insert", "Update", "Upsert"} THEN
        IF err = Nil
          THEN [by |-> IF op = "Insert" THEN "insert"
                       ELSE IF op = "Update" THEN "update" ELSE "upsert",
                val |-> arg, old |-> IF Present(e) THEN e.val ELSE <<>>]
        ELSE IF err \in SemanticErrs THEN e
        ELSE [by |-> "unknown", val |-> <<>>, old |-> <<>>]
    ELSE IF op = "Delete" THEN
        IF err # Nil \/ e.by = "unknown" THEN [by |-> "unknown", val |-> <<>>, old |-> <<>>]
        ELSE IF Present(e) THEN [by |-> "delete", val |-> <<>>, old |-> e.val]
        ELSE e
    ELSE e

\* an operation of handle hd returned (or hung, or panicked) with result r
Commit(hd, r, op, key, arg) ==
    /\ ~r.w.blocked
    /\ budget' = budget - 1
    /\ idx' = r.w.idx
    /\ bkt' = r.w.bkt
    /\ dat' = r.w.dat
    /\ hnd' = [hnd EXCEPT ![hd] = [r.w.h EXCEPT !.st = IF r.err = Hang THEN "hung"
                                                      ELSE IF r.err = Panic THEN "crashed"
                                                      ELSE "open"]]
    /\ lks' = [lks EXCEPT ![hd] = IF r.err = Panic THEN NoLocks ELSE r.w.lk]
    /\ last' = [h |-> hd, op |-> op, key |-> key, arg |-> arg,
                val |-> IF op = "Fetch" THEN r.val ELSE <<>>, err |-> r.err,
                recs |-> IF op = "FetchAll" THEN r.recs ELSE {}]
    /\ exp' = IF key \in DOMAIN exp THEN [exp EXCEPT ![key] = Known(@, op, arg, r.err)] ELSE exp
    /\ UNCHANGED variant

\* an open handle may start an operation while operations remain in the budget
IsOpen(hd) == budget > 0 /\ hnd[hd].st = "open"

Open(hd, mode) ==
    /\ budget > 0
    /\ hnd[hd].st \in {"new", "closed"}
    /\ Commit(hd, OpenIn([World(hd) EXCEPT !.h = NewHandle], mode), "Open", <<>>, <<>>)

Close(hd) ==
    /\ IsOpen(hd)
    /\ budget' = budget - 1
    /\ hnd' = [hnd EXCEPT ![hd].st = "closed"]
    /\ lks' = [lks EXCEPT ![hd] = NoLocks]
    /\ last' = [NoOp EXCEPT !.h = hd, !.op = "Close"]
    /\ UNCHANGED <<variant, idx, bkt, dat, exp>>

\* the public operations on a world, dispatched on the variant of the index
FetchIn(w, key) == IF w.v = "static" THEN HashFetch(w, key) ELSE LinearFetch(w, key)
FetchAllIn(w) == IF w.v = "static" THEN HashFetchAll(w) ELSE LinearFetchAll(w)
InsertIn(w, key, value) ==
    IF w.v = "static" THEN HashStore(w, key, value, "insert") ELSE LinearInsert(w, key, value)
UpdateIn(w, key, value) ==
    IF w.v = "static" THEN HashStore(w, key, value, "update")
    ELSE LinearStore(w, key, value, "update")
UpsertIn(w, key, value) ==
    IF w.v = "static" THEN HashStore(w, key, value, "upsert")
    ELSE LinearStore(w, key, value, "upsert")
DeleteIn(w, key) == IF w.v = "static" THEN HashDelete(w, key) ELSE LinearDelete(w, key)

Fetch(hd, key) ==
    /\ IsOpen(hd)
    /\ Commit(hd, FetchIn(World(hd), key), "Fetch", key, <<>>)

FetchAll(hd) ==
    /\ IsOpen(hd)
    /\ Commit(hd, FetchAllIn(World(hd)), "FetchAll", <<>>, <<>>)

Insert(hd, key, value) ==
    /\ IsOpen(hd)
    /\ Commit(hd, InsertIn(World(hd), key, value), "Insert", key, value)

Update(hd, key, value) ==
    /\ IsOpen(hd)
    /\ Commit(hd, UpdateIn(World(hd), key, value), "Update", key, value)

Upsert(hd, key, value) ==
    /\ IsOpen(hd)
    /\ Commit(hd, UpsertIn(World(hd), key, value), "Upsert", key, value)

Delete(hd, key) ==
    /\ IsOpen(hd)
    /\ Commit(hd, DeleteIn(World(hd), key), "Delete", key, <<>>)

Next ==
    /\ UNCHANGED pc
    /\ \/ \E hd \in Handles, mode \in {"create", "rdwr"} : Open(hd, mode)
       \/ \E hd \in Handles : Close(hd)
       \/ \E hd \in Handles, key \in Keys : Fetch(hd, key)
       \/ \E hd \in Handles : FetchAll(hd)
       \/ \E hd \in Handles, key \in Keys, value \in Values : Insert(hd, key, value)
       \/ \E hd \in Handles, key \in Keys, value \in Values : Update(hd, key, value)
       \/ \E hd \in Handles, key \in Keys, value \in Values : Upsert(hd, key, value)
       \/ \E hd \in Handles, key \in Keys : Delete(hd, key)

Spec == Init /\ [][Next]_vars

(***************************************************************************)
(* The workload of the tests: one handle inserts, fetches and deletes keys *)
(* that each have their own value (key_i -> val_i, of different lengths),  *)
(* in any order.                                                           *)
(***************************************************************************)
ValueOf(key) == IF key = <<"r", "f">> THEN <<"v", "v">>
                ELSE IF key = <<"r", "j">> THEN <<"w", "w", "w">>
                ELSE <<"x", "x", "x", "x">>

InitKV == InitDB /\ budget = MaxOpsKV

NextKV ==
    /\ UNCHANGED pc
    /\ \/ \E key \in Keys : Insert(1, key, ValueOf(key))
       \/ \E key \in Keys : Fetch(1, key)
       \/ \E key \in Keys : Delete(1, key)

SpecKV == InitKV /\ [][NextKV]_vars

(***************************************************************************)
(* The concurrent test: every worker runs work() on its own handle, which  *)
(* inserts its keys, fetches them, deletes them, fetches them again, and   *)
(* closes the handle; a failed operation (t.Fatal) ends the worker, whose  *)
(* deferred Close still runs.  pc[w] is the worker's position in its       *)
(* program, one past its end when only the Close remains.                  *)
(***************************************************************************)
WorkKeys(w) == IF w = 1 THEN <<<<"r", "f">>, <<"r", "j">>>>
               ELSE IF w = 2 THEN <<<<"r", "m">>>>
               ELSE <<>>

Phase(w, op) == [i \in 1..Len(WorkKeys(w)) |-> [op |-> op, key |-> WorkKeys(w)[i]]]

work(w) == Phase(w, "Insert") \o Phase(w, "Fetch") \o Phase(w, "Delete") \o Phase(w, "Fetch")

At(w, op) == pc[w] <= Len(work(w)) /\ work(w)[pc[w]].op = op

Advance(w) == pc' = [pc EXCEPT ![w] = IF last'.err = Nil THEN @ + 1 ELSE Len(work(w)) + 1]

WorkInsert(w) ==
    /\ At(w, "Insert")
    /\ Insert(w, work(w)[pc[w]].key, ValueOf(work(w)[pc[w]].key))
    /\ Advance(w)

WorkFetch(w) ==
    /\ At(w, "Fetch")
    /\ Fetch(w, work(w)[pc[w]].key)
    /\ Advance(w)

WorkDelete(w) ==
    /\ At(w, "Delete")
    /\ Delete(w, work(w)[pc[w]].key)
    /\ Advance(w)

WorkClose(w) ==
    /\ pc[w] = Len(work(w)) + 1
    /\ Close(w)
    /\ pc' = [pc EXCEPT ![w] = @ + 1]

InitWork == InitDB /\ budget = MaxOpsWork

NextWork ==
    \/ \E w \in Handles : WorkInsert(w)
    \/ \E w \in Handles : WorkFetch(w)
    \/ \E w \in Handles : WorkDelete(w)
    \/ \E w \in Handles : WorkClose(w)

SpecWork == InitWork /\ [][NextWork]_vars

\* the record of key as the chain search of handle hd finds it in the current
\* files (with the header read again in the linear variant)
Lookup(hd, key) ==
    Let(IF variant = "static" THEN World(hd) ELSE readHeader(World(hd), FALSE), LAMBDA w :
    Let((dbHash(variant, w.h, key) * PTR_SZ) + w.h.hashoff, LAMBDA chainoff :
    Let(readPtr(w.idx, chainoff), LAMBDA p :
    Let(ChainWalk(RecFile(w), [w.h EXCEPT !.chainoff = chainoff, !.ptroff = chainoff],
                  key, p.val, {}), LAMBDA c :
        IF p.err # Nil THEN [found |-> FALSE, err |-> p.err, h |-> w.h]
        ELSE [found |-> (c.err = Nil /\ c.offset # 0), err |-> c.err, h |-> c.h]))))

\* C1: a Fetch of a key whose last operation other than fetches was a
\* successful Insert(k, v) returns v and no error
C1_FetchAfterInsert ==
    (last.op = "Fetch" /\ exp[last.key].by = "insert")
        => (last.err = Nil /\ last.val = exp[last.key].val)

\* C3: a Fetch of a key that was inserted and then deleted returns the empty
\* value and no error
C3_FetchAfterDelete ==
    (last.op = "Fetch" /\ exp[last.key].by = "delete")
        => (last.err = Nil /\ last.val = <<>>)

\* C6: a Fetch of a key that is not present returns the empty value and no
\* error, and a Delete of a key that is not present returns no error and
\* leaves the index, bucket and data files as they were
C6_AbsentKeyHarmless ==
    [][(last'.key \in Keys /\ exp[last'.key].by \in {"absent", "delete"})
          => /\ last'.op = "Fetch" => (last'.err = Nil /\ last'.val = <<>>)
             /\ last'.op = "Delete" => (last'.err = Nil /\ idx' = idx /\ bkt' = bkt
                                       /\ dat' = dat)]_vars

\* C2: a Fetch of a key whose last operation other than fetches was a
\* successful Update(k, v2) of a stored key returns v2 and no error, whether v2
\* is shorter than, as long as, or longer than the value it replaced
C2_FetchAfterUpdate ==
    (last.op = "Fetch" /\ exp[last.key].by = "update")
        => (last.err = Nil /\ last.val = exp[last.key].val)

\* C4: a Delete of a stored key that returns no error leaves the size of the
\* data file unchanged, overwrites exactly the datlen bytes of the key's data
\* record with spaces and a newline, and leaves every other byte as it was
C4_DeleteFrame ==
    [][(last'.op = "Delete" /\ last'.err = Nil /\ Lookup(last'.h, last'.key).found)
          => LET rec == Lookup(last'.h, last'.key).h
             IN  /\ Len(dat') = Len(dat)
                 /\ \A i \in 1..Len(dat) :
                       dat'[i] = IF i <= rec.datoff \/ i > rec.datoff + rec.datlen THEN dat[i]
                                 ELSE IF i = rec.datoff + rec.datlen THEN NL
                                 ELSE SP]_vars

\* C5: a store that returns a semantic error writes nothing; an Insert of a
\* key that is stored returns "already exists" and an Update of a key that is
\* not stored returns "does not exist"
C5_FailedStoreFrame ==
    [][(last'.op \in {"Insert", "Update", "Upsert"})
          => LET f == Lookup(last'.h, last'.key)
             IN  /\ last'.err \in SemanticErrs => (idx' = idx /\ bkt' = bkt /\ dat' = dat)
                 /\ (last'.op = "Insert" /\ f.err = Nil /\ f.found)
                       => last'.err = "already exists"
                 /\ (last'.op = "Update" /\ f.err = Nil /\ ~f.found)
                       => last'.err = "does not exist"]_vars

C5_Witness ==
    /\ last.op = "Insert"
    /\ last.err = "already exists"
    /\ exp[last.key].by = "insert"
    /\ exp[last.key].val # last.arg

\* C7: when the outcome of every earlier operation is known, FetchAll returns
\* no error and exactly the stored keys with their values
C7_FetchAllExact ==
    (last.op = "FetchAll" /\ \A k \in Keys : exp[k].by # "unknown")
        => /\ last.err = Nil
           /\ last.recs = {<<k, exp[k].val>> : k \in {x \in Keys : Present(exp[x])}}

\* C8: static variant, concurrent workers: no operation of a worker fails, a
\* fetch after the worker's insert returns the inserted value and a fetch
\* after the worker's delete returns the empty value
C8_StaticWorkers ==
    (variant = "static" /\ last.op \in {"Insert", "Fetch", "Delete"})
        => /\ last.err = Nil
           /\ (last.op = "Fetch" /\ exp[last.key].by = "insert")
                 => last.val = exp[last.key].val
           /\ (last.op = "Fetch" /\ exp[last.key].by = "delete") => last.val = <<>>

\* worker w has a next step and is not kept from it by another handle's lock
CanStep(w) ==
    /\ hnd[w].st = "open"
    /\ pc[w] <= Len(work(w)) + 1
    /\ At(w, "Insert") =>
          ~InsertIn(World(w), work(w)[pc[w]].key, ValueOf(work(w)[pc[w]].key)).w.blocked
    /\ At(w, "Fetch") => ~FetchIn(World(w), work(w)[pc[w]].key).w.blocked
    /\ At(w, "Delete") => ~DeleteIn(World(w), work(w)[pc[w]].key).w.blocked

\* C9: linear variant, concurrent workers: no operation of a worker fails or
\* hangs, a worker that has not finished can always take its next step or is
\* waiting for a worker that can, a fetch after the worker's insert returns the
\* inserted value and a fetch after the worker's delete returns the empty value
C9_LinearWorkers ==
    variant = "linear"
        => /\ last.op \in {"Insert", "Fetch", "Delete"}
                 => /\ last.err = Nil
                    /\ (last.op = "Fetch" /\ exp[last.key].by = "insert")
                          => last.val = exp[last.key].val
                    /\ (last.op = "Fetch" /\ exp[last.key].by = "delete")
                          => last.val = <<>>
           /\ (\E w \in Handles : pc[w] <= Len(work(w)) + 1) => \E w \in Handles : CanStep(w)

\* C10: a handle whose operation has returned holds no lock
C10_NoLocksHeld ==
    \A hd \in Handles : hnd[hd].st = "open" => lks[hd] = NoLocks

(***************************************************************************)
(* The lock calls of the static index, one call at a time.  A handle that  *)
(* runs an operation is at position pc of the operation's sequence of      *)
(* WriteLockW / ReadLockW / Unlock calls; which of its branches the        *)
(* operation takes (key found or not, free slot found or not) is chosen    *)
(* when it starts.  hnd[hd].st names the operation and branch, "open" when *)
(* the handle is between operations.                                       *)
(***************************************************************************)
LockCall(file, lo, len, wr) == [act |-> "lock", file |-> file, lo |-> lo, len |-> len, wr |-> wr]
UnlockCall(file, lo, len) == [act |-> "unlock", file |-> file, lo |-> lo, len |-> len, wr |-> FALSE]

\* findFree and _delete: the free list is changed under a lock on FREE_OFF
FreeListLocks ==
    <<LockCall("idx", FreeOff("static"), 1, TRUE), UnlockCall("idx", FreeOff("static"), 1)>>

\* writeData and writeIdx with io.SeekEnd: each append under its own lock
AppendLocks ==
    <<LockCall("dat", 0, 0, TRUE), UnlockCall("dat", 0, 0),
      LockCall("idx", ((HASHTABLE_SIZE + 1) * PTR_SZ) + 1, 0, TRUE),
      UnlockCall("idx", ((HASHTABLE_SIZE + 1) * PTR_SZ) + 1, 0)>>

FetchLocks(c) == <<LockCall("idx", c, 1, FALSE), UnlockCall("idx", c, 1)>>

\* a Delete that takes the free-list lock before the lock of the chain
DeleteLocksFreeFirst(c, found) ==
    IF found
      THEN <<LockCall("idx", FreeOff("static"), 1, TRUE), LockCall("idx", c, 1, TRUE),
             UnlockCall("idx", FreeOff("static"), 1), UnlockCall("idx", c, 1)>>
    ELSE <<LockCall("idx", c, 1, TRUE), UnlockCall("idx", c, 1)>>

DeleteLocks(c, found) ==
    <<LockCall("idx", c, 1, TRUE)>> \o (IF found THEN FreeListLocks ELSE <<>>)
        \o <<UnlockCall("idx", c, 1)>>

\* store: "return" (Update of an absent key, Insert of a stored key, or a value
\* written in place), "reuse" (absent key, free slot found), "append" (absent
\* key, no free slot), "replace" (stored key, value of another length)
StoreLocks(c, branch) ==
    <<LockCall("idx", c, 1, TRUE)>>
        \o (IF branch = "return" THEN <<>>
            ELSE IF branch = "reuse" THEN FreeListLocks
            ELSE FreeListLocks \o AppendLocks)
        \o <<UnlockCall("idx", c, 1)>>

RECURSIVE FetchAllLocksFrom(_)
FetchAllLocksFrom(i) ==
    IF i >= HASHTABLE_SIZE THEN <<>>
    ELSE FetchLocks(FreeOff("static") + ((i + 1) * PTR_SZ)) \o FetchAllLocksFrom(i + 1)

FetchAllLocks == FetchAllLocksFrom(0)

StoreBranches == {"return", "reuse", "append", "replace"}
LockOps == {"Fetch", "FetchAll", "Delete found", "Delete absent"} \cup StoreBranches

\* the lock calls of the operation the handle is running
LockProgram(h) ==
    IF h.st = "Fetch" THEN FetchLocks(h.chainoff)
    ELSE IF h.st = "FetchAll" THEN FetchAllLocks
    ELSE IF h.st = "Delete found" THEN DeleteLocks(h.chainoff, TRUE)
    ELSE IF h.st = "Delete absent" THEN DeleteLocks(h.chainoff, FALSE)
    ELSE StoreLocks(h.chainoff, h.st)

\* the buckets of the keys of the model, and bucket 0
LockBuckets == {0} \cup {XXH64Mod137(k) % HASHTABLE_SIZE : k \in Keys \cup {<<" ", " ">>}}

Running(hd) == hnd[hd].st \in LockOps

NextCall(hd) == LockProgram(hnd[hd])[pc[hd]]

\* the handle's next call is a lock request that another handle's lock keeps waiting
Waiting(hd) ==
    /\ Running(hd)
    /\ NextCall(hd).act = "lock"
    /\ Lock(World(hd), NextCall(hd).file, NextCall(hd).lo, NextCall(hd).len,
            NextCall(hd).wr).blocked

\* hnd[hd].chainoff is the chain pointer the running operation locks; FetchAll
\* has none (it goes through all of them)
StartOp(hd, op, b) ==
    /\ hnd[hd].st = "open"
    /\ op = "FetchAll" => b = 0
    /\ hnd' = [hnd EXCEPT ![hd].st = op,
                          ![hd].chainoff = IF op = "FetchAll" THEN 0
                                           ELSE (b * PTR_SZ) + hnd[hd].hashoff]
    /\ pc' = [pc EXCEPT ![hd] = 1]
    /\ UNCHANGED <<variant, idx, bkt, dat, lks, budget, last, exp>>

\* the operation returns after the last call of its program
AfterCall(hd) ==
    /\ pc' = [pc EXCEPT ![hd] = IF pc[hd] = Len(LockProgram(hnd[hd])) THEN 1 ELSE @ + 1]
    /\ hnd' = IF pc[hd] = Len(LockProgram(hnd[hd]))
              THEN [hnd EXCEPT ![hd].st = "open", ![hd].chainoff = 0]
              ELSE hnd
    /\ UNCHANGED <<variant, idx, bkt, dat, budget, last, exp>>

StepLock(hd) ==
    /\ Running(hd)
    /\ NextCall(hd).act = "lock"
    /\ ~Waiting(hd)
    /\ lks' = [lks EXCEPT ![hd] = Lock(World(hd), NextCall(hd).file, NextCall(hd).lo,
                                       NextCall(hd).len, NextCall(hd).wr).lk]
    /\ AfterCall(hd)

StepUnlock(hd) ==
    /\ Running(hd)
    /\ NextCall(hd).act = "unlock"
    /\ lks' = [lks EXCEPT ![hd] = Unlock(World(hd), NextCall(hd).file, NextCall(hd).lo,
                                         NextCall(hd).len).lk]
    /\ AfterCall(hd)

InitLocks == InitDB /\ variant = "static" /\ budget = 0

NextLocks ==
    \/ \E hd \in Handles, op \in LockOps, b \in LockBuckets : StartOp(hd, op, b)
    \/ \E hd \in Handles : StepLock(hd)
    \/ \E hd \in Handles : StepUnlock(hd)

\* fair lock granting: a request that can be granted again and again is granted
SpecLocks ==
    /\ InitLocks
    /\ [][NextLocks]_vars
    /\ \A hd \in Handles : SF_vars(StepLock(hd)) /\ WF_vars(StepUnlock(hd))

C12_IdleHandlesDoNotBlock ==
    (variant = "linear" /\ \A o \in Handles : hnd[o].st # "hung")
        => \A hd \in Handles :
              hnd[hd].st = "open" => \A key \in Keys : ~FetchIn(World(hd), key).w.blocked

(***************************************************************************)
(* A writer and a reader: handle 1 inserts, updates and deletes keys of    *)
(* one chain, handle 2 fetches them.                                       *)
(***************************************************************************)
InitRW == InitDB /\ budget = MaxOpsRW

NextRW ==
    /\ UNCHANGED pc
    /\ \/ \E key \in Keys, value \in Values : Insert(1, key, value)
       \/ \E key \in Keys, value \in Values : Update(1, key, value)
       \/ \E key \in Keys : Delete(1, key)
       \/ \E key \in Keys : Fetch(2, key)

SpecRW == InitRW /\ [][NextRW]_vars

\* C13: a Fetch of k by one handle, where the writes of k and of the other
\* keys of its chain are made by another handle, returns no error and either
\* the value k had before its last write or the value it has after it
C13_NoTornRead ==
    (last.op = "Fetch" /\ last.h = 2 /\ exp[last.key].by # "unknown")
        => /\ last.err = Nil
           /\ last.val \in {exp[last.key].val, exp[last.key].old}



(***************************************************************************)
(* Operations in two steps.  An operation first takes the locks it enters  *)
(* with (the header lock of the linear index, then the lock of the chain   *)
(* of its key) and then runs to its return; in between, other handles may  *)
(* run.  A linear Insert has one step more: after store has returned nil   *)
(* it splits a bucket when the load calls for it and updates the header.   *)
(* pc[hd] = 1: no operation; 1 + i: inside StepOps[i], entry locks held;   *)
(* 1 + Len(StepOps) + i: inside the Insert StepOps[i], store has returned. *)
(***************************************************************************)
MaxOpsSteps == 3

StepValue == <<"v", "v">>

StepOps ==
    << [op |-> "Fetch", key |-> <<"r", "f">>], [op |-> "Fetch", key |-> <<"r", "n">>],
       [op |-> "Insert", key |-> <<"r", "f">>], [op |-> "Insert", key |-> <<"r", "n">>],
       [op |-> "Update", key |-> <<"r", "f">>], [op |-> "Update", key |-> <<"r", "n">>],
       [op |-> "Delete", key |-> <<"r", "f">>], [op |-> "Delete", key |-> <<"r", "n">>] >>

Steps == 1..Len(StepOps)

\* the locks an operation on key holds when findAndLock starts to read the chain
EntryLocks(w, key, isWriteLock) ==
    Let(IF w.v = "static" THEN w ELSE readHeader(w, TRUE), LAMBDA w0 :
    Let((dbHash(w0.v, w0.h, key) * PTR_SZ) + w0.h.hashoff, LAMBDA chainoff :
        Lock([w0 EXCEPT !.h.chainoff = chainoff, !.h.ptroff = chainoff],
             "idx", chainoff, 1, isWriteLock)))

Run(w, step) ==
    CASE step.op = "Fetch" -> FetchIn(w, step.key)
      [] step.op = "Insert" -> InsertIn(w, step.key, StepValue)
      [] step.op = "Update" -> UpdateIn(w, step.key, StepValue)
      [] step.op = "Delete" -> DeleteIn(w, step.key)

Inside(hd) == pc[hd] \in 2..(1 + Len(StepOps))
StoreReturned(hd) == pc[hd] > 1 + Len(StepOps)
StepOf(hd) == StepOps[IF StoreReturned(hd) THEN pc[hd] - 1 - Len(StepOps) ELSE pc[hd] - 1]

\* the handle keeps what the step left: files, fields and locks
Keep(hd, w) ==
    /\ idx' = w.idx
    /\ bkt' = w.bkt
    /\ dat' = w.dat
    /\ hnd' = [hnd EXCEPT ![hd] = [w.h EXCEPT !.st = "open"]]
    /\ lks' = [lks EXCEPT ![hd] = w.lk]
    /\ UNCHANGED <<variant, budget, last, exp>>

Enter(hd, i, w) ==
    /\ ~w.blocked
    /\ Keep(hd, w)
    /\ pc' = [pc EXCEPT ![hd] = 1 + i]

Begin(hd, i) ==
    /\ hnd[hd].st = "open"
    /\ pc[hd] = 1
    /\ Cardinality({o \in Handles : pc[o] # 1}) < budget
    /\ Enter(hd, i, EntryLocks(World(hd), StepOps[i].key, StepOps[i].op # "Fetch"))

Return(hd, r) ==
    /\ Commit(hd, r, StepOf(hd).op, StepOf(hd).key,
              IF StepOf(hd).op \in {"Insert", "Update"} THEN StepValue ELSE <<>>)
    /\ pc' = [pc EXCEPT ![hd] = 1]

Finish(hd) ==
    /\ Inside(hd)
    /\ ~(variant = "linear" /\ StepOf(hd).op = "Insert")
    /\ Return(hd, Run(World(hd), StepOf(hd)))

StoreStep(hd, st) ==
    IF st.err # Nil THEN Return(hd, st)
    ELSE /\ ~st.w.blocked
         /\ Keep(hd, st.w)
         /\ pc' = [pc EXCEPT ![hd] = @ + Len(StepOps)]

StoreDone(hd) ==
    /\ Inside(hd)
    /\ variant = "linear" /\ StepOf(hd).op = "Insert"
    /\ StoreStep(hd, LinearStore(World(hd), StepOf(hd).key, StepValue, "insert"))

Grow(hd) ==
    /\ StoreReturned(hd)
    /\ Return(hd, LinearGrow(World(hd)))

InitSteps == InitDB /\ budget = MaxOpsSteps

NextSteps ==
    \/ \E hd \in Handles, i \in Steps : Begin(hd, i)
    \/ \E hd \in Handles : Finish(hd)
    \/ \E hd \in Handles : StoreDone(hd)
    \/ \E hd \in Handles : Grow(hd)

SpecSteps == InitSteps /\ [][NextSteps]_vars

\* C14: while a handle is inside a Fetch, store or Delete on one bucket and has
\* not hung or crashed, an idle handle's Fetch, store or Delete on a key of
\* another bucket runs to its return without waiting for any lock
C14_DifferentBucketsConcurrent ==
    \A a \in Handles, b \in Handles, j \in Steps :
        ( /\ a # b
          /\ Inside(a) /\ hnd[a].st = "open"
          /\ pc[b] = 1 /\ hnd[b].st = "open"
          /\ dbHash(variant, hnd[a], StepOf(a).key) # dbHash(variant, hnd[a], StepOps[j].key) )
            => ~Run(World(b), StepOps[j]).w.blocked

\* a write lock of the set ls covers the byte at offset off
Covered(ls, off) == \E l \in ls : l.wr /\ l.lo <= off /\ (l.len = 0 \/ off < l.lo + l.len)

\* store has returned nil to Insert and the load calls for a split
SplitPending(hd) ==
    /\ variant = "linear"
    /\ StoreReturned(hd)
    /\ (hnd[hd].nrecords + 1) \div hnd[hd].nhash >= 1

\* C15: when a linear Insert is about to split (and until the split is done,
\* since split neither takes nor releases a lock), the handle holds write locks
\* that cover the lock byte of the old bucket's pointer and the offset of the
\* new bucket's pointer
C15_SplitHoldsBucketLocks ==
    \A hd \in Handles :
        SplitPending(hd)
            => /\ Covered(lks[hd]["idx"], (hnd[hd].s * PTR_SZ) + hnd[hd].hashoff)
               /\ Covered(lks[hd]["idx"], Len(idx))



(***************************************************************************)
(* Growth of the linear index: inserts of keys whose hashes differ in      *)
(* their low bits, each insert after the first splitting a bucket.         *)
(***************************************************************************)
MaxOpsSplit == 5

SplitKeys == {<<"r", "b">>, <<"r", "n">>, <<"r", "f">>, <<"r", "a">>, <<"r", "g">>, <<"r", "r">>}

InitSplit ==
    /\ variant = "linear"
    /\ InitFiles(OpenIn(EmptyWorld(variant), "create"),
                 OpenSecond(OpenIn(EmptyWorld(variant), "create")))
    /\ last = NoOp
    /\ exp = [k \in SplitKeys |-> Absent]
    /\ pc = [hd \in Handles |-> 1]
    /\ budget = MaxOpsSplit

NextSplit ==
    /\ UNCHANGED pc
    /\ \E hd \in Handles, key \in SplitKeys : Insert(hd, key, StepValue)

SpecSplit == InitSplit /\ [][NextSplit]_vars

\* the header as it is on disk
Header == readHeader(World(1), FALSE).h

\* key is on the chain of the bucket dbHash computes for it from the header on disk
OnItsChain(key) == LinearFindAndLock(readHeader(World(1), FALSE), key, FALSE).found

\* C16: after successful inserts and the splits they made, every key inserted
\* is on the chain of the bucket that dbHash computes from the header on disk
C16_KeysOnTheirChains ==
    \A k \in SplitKeys : Present(exp[k]) => OnItsChain(k)

\* a split has moved one inserted key to a new bucket and left another behind
C16_Witness ==
    /\ last.op = "Insert" /\ last.err = Nil
    /\ Header.nhash >= 5
    /\ \E k1 \in SplitKeys, k2 \in SplitKeys :
        /\ Present(exp[k1]) /\ Present(exp[k2])
        /\ XXH64Low4(k1) % 2 = XXH64Low4(k2) % 2
        /\ LinearDbHash(Header, k1) >= 2
        /\ LinearDbHash(Header, k2) < 2
        /\ OnItsChain(k1) /\ OnItsChain(k2)


\* nbuckets and the split pointer in the header of the index file f
HeaderNHash(f) == parseInt(SubSeq(f, idxtype_sz + 1, idxtype_sz + nbuckets_sz)).val
HeaderS(f) == parseInt(SubSeq(f, idxtype_sz + nbuckets_sz + 1, idxtype_sz + (2 * nbuckets_sz))).val
HeaderNRecords(f) ==
    parseInt(SubSeq(f, idxtype_sz + (2 * nbuckets_sz) + 1, idxtype_sz + (3 * nbuckets_sz))).val

\* nbuckets >= 1, 0 <= split and 2 * split < nbuckets
HeaderOK(f) == HeaderNHash(f) >= 1 /\ HeaderS(f) >= 0 /\ 2 * HeaderS(f) < HeaderNHash(f)

\* C17: every header the linear index has on disk has nbuckets >= 1 and
\* 0 <= 2 * split < nbuckets; no step makes nbuckets smaller; and a step that
\* adds a bucket with 2 * (split + 1) equal to the new nbuckets leaves split 0
C17_HeaderInvariant ==
    /\ (variant = "linear" => HeaderOK(idx))
    /\ [][variant = "linear" =>
            /\ HeaderOK(idx')
            /\ HeaderNHash(idx') >= HeaderNHash(idx)
            /\ (HeaderNHash(idx') > HeaderNHash(idx) /\ 2 * (HeaderS(idx) + 1) = HeaderNHash(idx'))
                  => HeaderS(idx') = 0]_vars

\* the split of bucket 1 of three has reset the split pointer
C17_Witness ==
    /\ variant = "linear"
    /\ last.op = "Insert" /\ last.err = Nil
    /\ Header.nhash = 4 /\ Header.s = 0


\* the smallest i with 2^i >= nbuckets, for the header of the index file f
HeaderI(f) == CeilLog2(HeaderNHash(f))

\* C18 as stated: a step that changes nbuckets takes (i, s) to (i, s + 1) when
\* 2 * (s + 1) < 2^i and to (i + 1, 0) when 2 * (s + 1) = 2^i, and no other
\* step changes (i, s)
C18_StatedTransitions ==
    [][variant = "linear" =>
        IF HeaderNHash(idx') = HeaderNHash(idx)
          THEN HeaderS(idx') = HeaderS(idx)
        ELSE \/ /\ 2 * (HeaderS(idx) + 1) < Pow2(HeaderI(idx))
                /\ HeaderI(idx') = HeaderI(idx) /\ HeaderS(idx') = HeaderS(idx) + 1
             \/ /\ 2 * (HeaderS(idx) + 1) = Pow2(HeaderI(idx))
                /\ HeaderI(idx') = HeaderI(idx) + 1 /\ HeaderS(idx') = 0]_vars

\* C18: a step that changes the header's nbuckets adds one bucket, takes s to
\* 0 when 2 * (s + 1) equals the new nbuckets and to s + 1 otherwise, and takes
\* i (the field of the handle, equal to the smallest i with 2^i >= nbuckets) to
\* i + 1 when the old nbuckets was 2^i and leaves it otherwise; no other step
\* changes nbuckets or s
C18_SplitTransitions ==
    [][variant = "linear" =>
        IF HeaderNHash(idx') = HeaderNHash(idx)
          THEN HeaderS(idx') = HeaderS(idx)
        ELSE /\ HeaderNHash(idx') = HeaderNHash(idx) + 1
             /\ HeaderS(idx') = IF 2 * (HeaderS(idx) + 1) = HeaderNHash(idx')
                                 THEN 0 ELSE HeaderS(idx) + 1
             /\ hnd'[last'.h].i = IF HeaderNHash(idx) = Pow2(HeaderI(idx))
                                    THEN HeaderI(idx) + 1 ELSE HeaderI(idx)
             /\ hnd'[last'.h].i = HeaderI(idx')]_vars

\* the split of bucket 1 of five: (i, s) = (3, 1) has become (3, 2)
C18_Witness ==
    /\ variant = "linear"
    /\ last.op = "Insert" /\ last.err = Nil
    /\ HeaderNHash(idx) = 6 /\ HeaderS(idx) = 2 /\ hnd[last.h].i = 3



(***************************************************************************)
(* Reuse of deleted records.                                               *)
(***************************************************************************)
\* C19: when a Delete has removed a stored key and the next operation is an
\* Insert of a key of the same length, with a value as long as the deleted
\* one, that returns nil, then the Insert leaves the length of the .dat file
\* and of the file of the chain records as they were
C19_FreeListReuse ==
    [][( /\ last.op = "Delete" /\ last.err = Nil
         /\ last.key \in DOMAIN exp
         /\ exp[last.key].by = "delete"
         /\ last'.op = "Insert" /\ last'.err = Nil
         /\ Len(last'.key) = Len(last.key)
         /\ Len(last'.arg) = Len(exp[last.key].old) )
            => /\ Len(dat') = Len(dat)
               /\ Len(IF variant = "static" THEN idx' ELSE bkt')
                    = Len(IF variant = "static" THEN idx ELSE bkt)]_vars



(***************************************************************************)
(* Stores of values at the bounds of the data length.                      *)
(***************************************************************************)
MaxOpsLen == 2

ValueLens == {0, 1, DATLEN_MAX - 1, DATLEN_MAX}
ValueOfLen(n) == [i \in 1..n |-> "v"]

InitLen == InitDB /\ budget = MaxOpsLen

NextLen ==
    /\ UNCHANGED pc
    /\ \E hd \in Handles, key \in Keys, n \in ValueLens :
        \/ Insert(hd, key, ValueOfLen(n))
        \/ Update(hd, key, ValueOfLen(n))
        \/ Upsert(hd, key, ValueOfLen(n))

SpecLen == InitLen /\ [][NextLen]_vars

\* C20: a store is rejected for the length of its value exactly when
\* len(value) + 1 is outside [DATLEN_MIN, DATLEN_MAX], and a store rejected for
\* the length of its value leaves the three files as they were
C20_ValueLengthBounds ==
    [][last'.op \in {"Insert", "Update", "Upsert"} =>
          /\ (Len(last'.arg) + 1 \in DATLEN_MIN..DATLEN_MAX)
                <=> (last'.err # "Invalid data length")
          /\ last'.err = "Invalid data length"
                => (idx' = idx /\ bkt' = bkt /\ dat' = dat)]_vars



(***************************************************************************)
(* Stores with keys at the bounds of the length of the chain record: the   *)
(* empty key and a key too long for a record.                              *)
(***************************************************************************)
MaxOpsKeys == 2

BoundKeys == {<<>>, <<"r", "f">>, LongKey}
BoundValues == {ValueOfLen(1), ValueOfLen(2), ValueOfLen(9)}

InitKeys == InitDB /\ budget = MaxOpsKeys

NextKeys ==
    /\ UNCHANGED pc
    /\ \E hd \in Handles, key \in BoundKeys, value \in BoundValues :
        \/ Insert(hd, key, value)
        \/ Update(hd, key, value)
        \/ Upsert(hd, key, value)

SpecKeys == InitKeys /\ [][NextKeys]_vars

\* the errors of a store that refuses a value or a key for its length
BoundsErrs == {"Invalid data length", "Invalid index record length"}

\* C21: a store that returns an error for the length of its value or of its
\* chain record leaves the contents (and so the sizes, the chains and the free
\* list) of the three files as they were
C21_RejectedStoreFrame ==
    [][(last'.op \in {"Insert", "Update", "Upsert"} /\ last'.err \in BoundsErrs)
          => (idx' = idx /\ bkt' = bkt /\ dat' = dat)]_vars

\* C22: a store with the empty key returns an error
C22_EmptyKeyRejected ==
    [][(last'.op \in {"Insert", "Update", "Upsert"} /\ last'.key = <<>>)
          => last'.err # Nil]_vars



(***************************************************************************)
(* The facade (Brickdb): New(name, indexType) and Open.  In this           *)
(* specification pc[hd] is the IndexType of the implementation that        *)
(* handle hd runs.                                                         *)
(***************************************************************************)
MaxOpsFacade == 3

IndexTypes == {HashIndexType, LinearHashIndexType}
IndexTypeOf(v) == IF v = "static" THEN HashIndexType ELSE LinearHashIndexType
VariantOf(indexType) == IF indexType = HashIndexType THEN "static" ELSE "linear"

\* strconv.ParseInt(s, 10, 64) of a three-byte string: digits only, no blanks
StrconvParseInt(s) ==
    IF s # <<>> /\ \A i \in 1..Len(s) : IsDigit(s[i])
      THEN [val |-> DecVal(s), err |-> Nil]
      ELSE [val |-> 0, err |-> "invalid syntax"]

\* the index type the first three bytes of the file f stand for
getIndexType(f) ==
    Let(StrconvParseInt(ReadAt(f, 0, idxtype_sz)), LAMBDA idxType :
        IF Len(ReadAt(f, 0, idxtype_sz)) # idxtype_sz
          THEN [type |-> 0, err |-> "Failed to get index type"]
        ELSE IF idxType.err # Nil THEN [type |-> 0, err |-> idxType.err]
        ELSE IF idxType.val \in IndexTypes THEN [type |-> idxType.val, err |-> Nil]
        ELSE [type |-> 0, err |-> "Invalid index type number"])

\* Brickdb.Open: exists is false, stays false when os.Stat reports that the
\* file is not there, and nothing else assigns it before it is tested
BrickdbExists(isNotExist) ==
    LET exists0 == FALSE
        exists1 == IF isNotExist THEN FALSE ELSE exists0
    IN  IF exists1 THEN TRUE ELSE exists1

\* the index type Brickdb.Open opens with, for a database whose .idx file is f
BrickdbIndexType(f, indexType) ==
    IF BrickdbExists(Len(f) = 0) THEN getIndexType(f) ELSE [type |-> indexType, err |-> Nil]

\* Brickdb.Open of a closed handle that New made with indexType
BrickdbOpen(hd, indexType) ==
    /\ budget > 0
    /\ hnd[hd].st = "closed"
    /\ BrickdbIndexType(idx, indexType).err = Nil
    /\ Commit(hd, OpenIn([World(hd) EXCEPT !.v = VariantOf(BrickdbIndexType(idx, indexType).type),
                                           !.h = NewHandle],
                         IF BrickdbExists(Len(idx) = 0) THEN "rdwr" ELSE "create"),
              "Open", <<>>, <<>>)
    /\ pc' = [pc EXCEPT ![hd] = BrickdbIndexType(idx, indexType).type]

InitFacade ==
    /\ variant \in {"static", "linear"}
    /\ InitFiles(OpenIn(EmptyWorld(variant), "create"),
                 OpenSecond(OpenIn(EmptyWorld(variant), "create")))
    /\ last = NoOp
    /\ exp = [k \in Keys |-> Absent]
    /\ pc = [hd \in Handles |-> IndexTypeOf(variant)]
    /\ budget = MaxOpsFacade

NextFacade ==
    \/ /\ UNCHANGED pc
       /\ \E hd \in Handles, key \in Keys, value \in Values :
            pc[hd] = IndexTypeOf(variant) /\ Insert(hd, key, value)
    \/ /\ UNCHANGED pc
       /\ \E hd \in Handles : Close(hd)
    \/ \E hd \in Handles, indexType \in IndexTypes : BrickdbOpen(hd, indexType)

SpecFacade == InitFacade /\ [][NextFacade]_vars

\* the index type written in the first three bytes of the index file f
StoredType(f) == parseInt(ReadAt(f, 0, idxtype_sz)).val

\* C23: when the facade has opened a handle on an existing database, the
\* handle runs the implementation of the type the database was created with,
\* and the type stored in the header of .idx is that type (so the two variants
\* store different types)
C23_FacadeRoundTrip ==
    (last.op = "Open" /\ last.err = Nil)
        => /\ pc[last.h] = IndexTypeOf(variant)
           /\ StoredType(idx) = IndexTypeOf(variant)



(***************************************************************************)
(* Sizes of the files of the static index.                                 *)
(***************************************************************************)
empty_index_file_size == 971

C25_LoadBound ==
    variant = "linear" =>
        4 * HeaderNHash(idx) >= 5 * Cardinality({k \in DOMAIN exp : Present(exp[k])})



(***************************************************************************)
(* The records on the chains and on the free list, as the files hold them: *)
(* the offsets met when the NEXT_PTR fields are followed from a pointer of *)
(* the index file to a 0 pointer (or to a record met before).              *)
(***************************************************************************)
RECURSIVE Reach(_, _, _)
Reach(f, offset, seen) ==
    IF offset <= 0 \/ offset \in seen THEN seen
    ELSE Reach(f, readPtr(f, offset).val, seen \cup {offset})

\* the records of the chain whose pointer is at offset ptroff of the index file
ChainOf(ptroff) ==
    IF ReadAt(idx, ptroff, PTR_SZ) = PadInt(PTR_SZ, 0) THEN {}
    ELSE Reach(IF variant = "static" THEN idx ELSE bkt, readPtr(idx, ptroff).val, {})

\* the number of buckets of the index
NBuckets == IF variant = "static" THEN HASHTABLE_SIZE ELSE HeaderNHash(idx)

BucketPtrOff(b) == HashOff(variant) + (b * PTR_SZ)

OnChains == UNION {ChainOf(BucketPtrOff(b)) : b \in 0..(NBuckets - 1)}
OnFreeList == ChainOf(FreeOff(variant))

\* no operation has stopped half way (hung or panicked)
Quiescent == \A hd \in Handles : hnd[hd].st \notin {"hung", "crashed"}

\* C26: when no operation is under way, no chain record is both on the chain
\* of a bucket and on the free list
C26_ChainsAndFreeListDisjoint ==
    Quiescent => OnChains \cap OnFreeList = {}


\* the key of the chain record at offset off
KeyAt(off) == readIdx(IF variant = "static" THEN idx ELSE bkt, NewHandle, off).h.idxbuf

\* C27: in the linear index, after the inserts and the splits they made, every
\* record on the chain of a bucket has a key that dbHash sends to that bucket
\* (so no record is on two chains and every NEXT_PTR stays inside its bucket)
C27_ChainsHoldOwnRecords ==
    variant = "linear" =>
        \A b \in 0..(NBuckets - 1) :
            \A off \in ChainOf(BucketPtrOff(b)) : LinearDbHash(Header, KeyAt(off)) = b


\* the fields of the chain record at offset off, as readIdx reads them
RecordAt(off) == readIdx(IF variant = "static" THEN idx ELSE bkt, NewHandle, off).h

\* the offsets of the bytes of .dat that the chain record at off refers to
DataRange(off) == RecordAt(off).datoff .. (RecordAt(off).datoff + RecordAt(off).datlen - 1)

\* C28: when no operation is under way, the data of every record on a chain
\* lies inside .dat, is not empty, at most DATLEN_MAX bytes long and ends in a newline,
\* and the data of two records on chains do not overlap
C28_DataRecordsWellFormed ==
    Quiescent =>
        /\ \A off \in OnChains :
            /\ RecordAt(off).datoff + RecordAt(off).datlen <= Len(dat)
            /\ RecordAt(off).datlen <= DATLEN_MAX
            /\ RecordAt(off).datlen >= 1
            /\ ReadAt(dat, RecordAt(off).datoff + RecordAt(off).datlen - 1, 1) = <<NL>>
        /\ \A o1 \in OnChains, o2 \in OnChains :
            o1 # o2 => DataRange(o1) \cap DataRange(o2) = {}



(***************************************************************************)
(* Updates in place.                                                       *)
(***************************************************************************)
\* C29: an Update or Upsert of a stored key that returns nil, with a value
\* whose stored length len(value) + 1 is the datlen of the record, leaves the
\* size of .dat, the chain records and every byte of .dat outside the data of
\* the record as they were; with any other length it appends to .dat
C29_InPlaceUpdate ==
    [][(last'.op \in {"Update", "Upsert"} /\ last'.err = Nil
            /\ Lookup(last'.h, last'.key).found)
          => IF Len(last'.arg) + 1 = Lookup(last'.h, last'.key).h.datlen
               THEN /\ Len(dat') = Len(dat)
                    /\ idx' = idx /\ bkt' = bkt
                    /\ \A i \in 1..Len(dat) :
                         (i <= Lookup(last'.h, last'.key).h.datoff
                            \/ i > Lookup(last'.h, last'.key).h.datoff
                                     + Lookup(last'.h, last'.key).h.datlen)
                           => dat'[i] = dat[i]
               ELSE Len(dat') > Len(dat)]_vars



(***************************************************************************)
(* Writes into a reused record.                                            *)
(***************************************************************************)
\* C30: an Insert that returns nil and takes its chain record from the free
\* list (the file of the chain records does not grow) writes its value inside
\* the data of that record: .dat keeps its length, and the data of every
\* record that was on a chain before the Insert keeps its bytes
C30_ReuseInsideSlot ==
    [][( /\ last'.op = "Insert" /\ last'.err = Nil
         /\ Quiescent
         /\ Len(IF variant = "static" THEN idx' ELSE bkt')
              = Len(IF variant = "static" THEN idx ELSE bkt) )
            => /\ Len(dat') = Len(dat)
               /\ \A off \in OnChains : \A o \in DataRange(off) :
                      o < Len(dat) => dat'[o + 1] = dat[o + 1]]_vars



(***************************************************************************)
(* The file a pointer is written to (linear index).                        *)
(***************************************************************************)
\* the first record of the free list
FreeHead == readPtr(idx, FreeOff(variant)).val

\* C31: in the linear index, when an Insert that returns nil takes the first
\* record of the free list (its key length and datlen are the ones findFree
\* asks for), the free-list pointer in .idx becomes the NEXT_PTR of that
\* record and nothing is written beyond the end of .bkt
C31_UnlinkWritesFreePtr ==
    [][( /\ variant = "linear" /\ Quiescent
         /\ last'.op = "Insert" /\ last'.err = Nil
         /\ FreeHead # 0
         /\ Len(KeyAt(FreeHead)) = Len(last'.key)
         /\ RecordAt(FreeHead).datlen = Len(last'.arg) )
            => /\ readPtr(idx', FreeOff("linear")).val = RecordAt(FreeHead).ptrval
               /\ Len(bkt') = Len(bkt)]_vars



(***************************************************************************)
(* Deletes in the linear index of records at any offset of .bkt.           *)
(***************************************************************************)
MaxOpsPred == 5

PredKeys == {DeepKey("q"), DeepKey("t"), DeepKey("n")}

InitPred ==
    /\ variant = "linear"
    /\ InitFiles(OpenIn(EmptyWorld(variant), "create"),
                 OpenSecond(OpenIn(EmptyWorld(variant), "create")))
    /\ last = NoOp
    /\ exp = [k \in PredKeys |-> Absent]
    /\ pc = [hd \in Handles |-> 1]
    /\ budget = MaxOpsPred

NextPred ==
    /\ UNCHANGED pc
    /\ \/ \E key \in PredKeys : Insert(1, key, StepValue)
       \/ \E key \in PredKeys : Delete(1, key)
       \/ \E key \in PredKeys : Fetch(1, key)

SpecPred == InitPred /\ [][NextPred]_vars

\* the pointer of the bucket of key, in .idx
BucketPtr(f, key) == readPtr(f, BucketPtrOff(LinearDbHash(Header, key))).val

\* C32: in the linear index a Delete of a stored key that returns nil writes
\* the NEXT_PTR of the deleted record into the bucket pointer in .idx when the
\* record is the first of its chain, and otherwise into the NEXT_PTR of the
\* record before it in .bkt, leaving the bucket pointer as it was
C32_DeleteRewritesPredecessor ==
    [][( /\ variant = "linear" /\ Quiescent
         /\ last'.op = "Delete" /\ last'.err = Nil
         /\ Lookup(last'.h, last'.key).found )
            => IF BucketPtr(idx, last'.key) = Lookup(last'.h, last'.key).h.idxoff
                 THEN BucketPtr(idx', last'.key) = Lookup(last'.h, last'.key).h.ptrval
                 ELSE /\ BucketPtr(idx', last'.key) = BucketPtr(idx, last'.key)
                      /\ readPtr(bkt', Lookup(last'.h, last'.key).h.ptroff).val
                           = Lookup(last'.h, last'.key).h.ptrval]_vars



(***************************************************************************)
(* When an Insert of the linear index splits.                              *)
(***************************************************************************)
\* C33: in the linear index an Insert that returns nil adds one to nrecords in
\* the header; when the integer quotient (nrecords + 1) / nbuckets is above
\* 0.8 it also adds exactly one bucket (one pointer at the end of .idx), and
\* otherwise it leaves nbuckets, split and the length of .idx as they were
C33_SplitOnLoad ==
    [][(variant = "linear" /\ last'.op = "Insert" /\ last'.err = Nil)
          => /\ HeaderNRecords(idx') = HeaderNRecords(idx) + 1
             /\ IF 5 * ((HeaderNRecords(idx) + 1) \div HeaderNHash(idx)) > 4
                  THEN /\ HeaderNHash(idx') = HeaderNHash(idx) + 1
                       /\ Len(idx') = Len(idx) + PTR_SZ
                  ELSE /\ HeaderNHash(idx') = HeaderNHash(idx)
                       /\ HeaderS(idx') = HeaderS(idx)
                       /\ Len(idx') = Len(idx)]_vars

\* three inserts have been counted and the last two have each added a bucket
C33_Witness ==
    /\ variant = "linear"
    /\ last.op = "Insert" /\ last.err = Nil
    /\ HeaderNRecords(idx) = 3 /\ HeaderNHash(idx) = 4



(***************************************************************************)
(* HashIndex.Open in create mode, statement by statement, on a database    *)
(* that does not exist yet: pc is the place of each handle in Open         *)
(*   0 not called, 1 holds the lock on the whole .idx, 2 found the file    *)
(*   empty, 3 wrote the header, 4 about to return, 5 returned.             *)
(***************************************************************************)
MaxOpsOpen == 3

\* the lock request of Open without the lock
OpenLockRequestNone(w) == w

OpenLockRequest(w) == Lock(w, "idx", 0, 0, TRUE)

HashPointers == [i \in 1..((HASHTABLE_SIZE + 1) * PTR_SZ) |-> IF i % PTR_SZ = 0 THEN "0" ELSE SP]

InOpen(hd) == pc[hd] \in 1..4

OpenStep(hd, from, to) ==
    /\ pc[hd] = from
    /\ pc' = [pc EXCEPT ![hd] = to]
    /\ UNCHANGED <<variant, dat, bkt, budget, exp>>

OpenLock(hd) ==
    /\ OpenStep(hd, 0, 1)
    /\ ~OpenLockRequest(World(hd)).blocked
    /\ lks' = [lks EXCEPT ![hd] = OpenLockRequest(World(hd)).lk]
    /\ hnd' = [hnd EXCEPT ![hd] = [NewHandle EXCEPT !.nhash = HASHTABLE_SIZE,
                                                    !.hashoff = HashOff("static")]]
    /\ UNCHANGED <<idx, last>>

OpenStat(hd) ==
    /\ pc[hd] = 1
    /\ pc' = [pc EXCEPT ![hd] = IF Len(idx) = 0 THEN 2 ELSE 4]
    /\ UNCHANGED <<variant, idx, bkt, dat, hnd, lks, budget, last, exp>>

OpenWriteHeader(hd) ==
    /\ OpenStep(hd, 2, 3)
    /\ idx' = HashWriteHeader(idx)
    /\ UNCHANGED <<hnd, lks, last>>

OpenWritePointers(hd) ==
    /\ OpenStep(hd, 3, 4)
    /\ idx' = WriteAt(idx, hash_idx_header_size, HashPointers \o <<NL>>)
    /\ UNCHANGED <<hnd, lks, last>>

OpenReturn(hd) ==
    /\ OpenStep(hd, 4, 5)
    /\ lks' = [lks EXCEPT ![hd] = Unlock(World(hd), "idx", 0, 0).lk]
    /\ hnd' = [hnd EXCEPT ![hd].st = "open"]
    /\ last' = [NoOp EXCEPT !.h = hd, !.op = "Open"]
    /\ UNCHANGED idx

InitOpen ==
    /\ variant = "static"
    /\ idx = <<>> /\ bkt = <<>> /\ dat = <<>>
    /\ hnd = [hd \in Handles |-> NewHandle]
    /\ lks = [hd \in Handles |-> NoLocks]
    /\ last = NoOp
    /\ exp = [k \in Keys |-> Absent]
    /\ pc = [hd \in Handles |-> 0]
    /\ budget = MaxOpsOpen

NextOpen ==
    \/ \E hd \in Handles : OpenLock(hd)
    \/ \E hd \in Handles : OpenStat(hd)
    \/ \E hd \in Handles : OpenWriteHeader(hd)
    \/ \E hd \in Handles : OpenWritePointers(hd)
    \/ \E hd \in Handles : OpenReturn(hd)
    \/ \E hd \in Handles, key \in Keys : Insert(hd, key, StepValue) /\ UNCHANGED pc

SpecOpen == InitOpen /\ [][NextOpen]_vars

\* C34: when handles open a new static database in create mode at the same
\* time, at most one handle is inside the initialisation; a handle that has
\* returned from Open holds no lock on .idx; every key that an Insert has
\* stored stays on its chain; and once the 971 bytes of the header and the
\* pointers are written, no step of an Open writes to .idx
C34_OpenInitialisesOnce ==
    /\ Cardinality({hd \in Handles : InOpen(hd)}) <= 1
    /\ \A hd \in Handles : pc[hd] = 5 => lks[hd]["idx"] = {}
    /\ \A hd \in Handles, k \in Keys :
          (pc[hd] = 5 /\ Present(exp[k])) => Lookup(hd, k).found
    /\ [][(pc' # pc /\ Len(idx) >= empty_index_file_size) => idx' = idx]_vars

\* one handle has stored a key and the other is inside Open, after its stat
C34_Witness ==
    /\ \E k \in Keys : Present(exp[k])
    /\ \E hd \in Handles : pc[hd] = 4
    /\ \E hd \in Handles : pc[hd] = 5



(***************************************************************************)
(* The free list of the static index under concurrent Delete and Insert.   *)
(* An operation runs in steps between which other handles may run:         *)
(*   findAndLock;                                                          *)
(*   Delete: lock FREE_OFF, blank the data, read the free pointer;         *)
(*           then write the record, the free pointer and the predecessor   *)
(*           pointer, unlock and return;                                   *)
(*   Insert: lock FREE_OFF and walk the free list; then unlink the record  *)
(*           found and unlock; then write the record and return.           *)
(* In this specification pc[hd] is a record: at, the place of the handle   *)
(* in its operation, and the local variables of the operation.             *)
(***************************************************************************)
MaxOpsFree == 4

FreeKeys == {<<"r", "b">>, <<"r", "n">>, <<"r", "a">>}
\* a value as long as the datlen that a Delete records when the handle has
\* read no data (datbuf is empty)
FreeValue == <<"v">>

Idle == [at |-> "idle", op |-> "none", key |-> <<>>, found |-> FALSE,
         freeptr |-> 0, ptrval |-> 0, offset |-> 0, saveOffset |-> 0]

\* the lock request of _delete and findFree without the lock
FreeLockNone(w) == w

FreeLock(w) == Lock(w, "idx", FreeOff("static"), 1, TRUE)

\* _delete up to the read of the free pointer
DeleteRead(w) ==
    Let(FreeLock([w EXCEPT !.h.datbuf = Spaces(Len(w.h.datbuf)),
                           !.h.idxbuf = Spaces(Len(w.h.idxbuf))]), LAMBDA w1 :
        writeData(w1, w1.h.datbuf, w1.h.datoff, "start"))

\* the rest of _delete and the return of Delete
DeleteWrite(w, freeptr) ==
    Let(w.h.ptrval, LAMBDA saveptr :
    Let(writeIdx(w, w.h.idxbuf, w.h.idxoff, "start", freeptr), LAMBDA wi :
    Let(writePtrIdx(wi.w, FreeOff("static"), wi.w.h.idxoff), LAMBDA p1 :
    Let(writePtrIdx(p1.w, p1.w.h.ptroff, saveptr), LAMBDA p2 :
    Let(IF wi.err # Nil THEN wi ELSE IF p1.err # Nil THEN p1 ELSE p2, LAMBDA r :
        [w |-> Unlock(Unlock(r.w, "idx", FreeOff("static"), 1), "idx", r.w.h.chainoff, 1),
         val |-> <<>>, err |-> r.err])))))

\* findFree up to the end of its loop
FindFreeWalk(w, keylen, datlen) ==
    Let(FreeLock(w), LAMBDA w1 :
    Let(FreeWalk(w1.idx, w1.h, keylen, datlen, readPtr(w1.idx, FreeOff("static")).val,
                 FreeOff("static"), {}, FALSE), LAMBDA c :
        [w |-> [w1 EXCEPT !.h = c.h], offset |-> c.offset, saveOffset |-> c.saveOffset]))

\* the rest of findFree
FindFreeUnlink(w, offset, saveOffset) ==
    Unlock(IF offset # 0 THEN writePtrIdx(w, saveOffset, w.h.ptrval).w ELSE w,
           "idx", FreeOff("static"), 1)

\* the rest of store on the path of a key that was not found
StoreLink(w, key, value, reuse, ptrval) ==
    Let(IF reuse THEN HashLink(w, key, value, w.h.datoff, w.h.idxoff, "start", ptrval)
        ELSE HashLink(w, key, value, 0, 0, "end", ptrval), LAMBDA r :
        [w |-> Unlock(r.w, "idx", r.w.h.chainoff, 1), val |-> <<>>, err |-> r.err])

Place(hd, place, op) == pc[hd].at = place /\ pc[hd].op = op

\* the handle goes on to the place given by next, keeping what the step did
Goto(hd, w, next) ==
    /\ ~w.blocked
    /\ Keep(hd, w)
    /\ pc' = [pc EXCEPT ![hd] = next]

\* the operation returns
Done(hd, r) ==
    /\ Commit(hd, r, pc[hd].op, pc[hd].key, IF pc[hd].op = "Insert" THEN FreeValue ELSE <<>>)
    /\ pc' = [pc EXCEPT ![hd] = Idle]

FreeBegin(hd, op, key) ==
    /\ hnd[hd].st = "open"
    /\ pc[hd] = Idle
    /\ Cardinality({o \in Handles : pc[o] # Idle}) < budget
    /\ Goto(hd, HashFindAndLock(World(hd), key, TRUE).w,
            [Idle EXCEPT !.at = "locked", !.op = op, !.key = key,
                         !.found = HashFindAndLock(World(hd), key, TRUE).found,
                         !.ptrval = readPtr(idx, BucketPtrOff(HashDbHash(hnd[hd], key))).val])

\* Delete of a key that is not stored, Insert of a key that is
FreeEarlyReturn(hd) ==
    /\ \/ Place(hd, "locked", "Delete") /\ ~pc[hd].found
       \/ Place(hd, "locked", "Insert") /\ pc[hd].found
    /\ Done(hd, [w |-> Unlock(World(hd), "idx", hnd[hd].chainoff, 1), val |-> <<>>,
                 err |-> IF pc[hd].op = "Insert" THEN "already exists" ELSE Nil])

FreeDeleteRead(hd) ==
    /\ Place(hd, "locked", "Delete") /\ pc[hd].found
    /\ Goto(hd, DeleteRead(World(hd)),
            [pc[hd] EXCEPT !.at = "read",
                           !.freeptr = readPtr(idx, FreeOff("static")).val])

FreeDeleteWrite(hd) ==
    /\ Place(hd, "read", "Delete")
    /\ Done(hd, DeleteWrite(World(hd), pc[hd].freeptr))

FreeInsertWalk(hd) ==
    /\ Place(hd, "locked", "Insert") /\ ~pc[hd].found
    /\ Goto(hd, FindFreeWalk(World(hd), Len(pc[hd].key), Len(FreeValue)).w,
            [pc[hd] EXCEPT !.at = "walked",
                 !.offset = FindFreeWalk(World(hd), Len(pc[hd].key), Len(FreeValue)).offset,
                 !.saveOffset = FindFreeWalk(World(hd), Len(pc[hd].key), Len(FreeValue)).saveOffset])

FreeInsertUnlink(hd) ==
    /\ Place(hd, "walked", "Insert")
    /\ Goto(hd, FindFreeUnlink(World(hd), pc[hd].offset, pc[hd].saveOffset),
            [pc[hd] EXCEPT !.at = "unlinked"])

FreeInsertLink(hd) ==
    /\ Place(hd, "unlinked", "Insert")
    /\ Done(hd, StoreLink(World(hd), pc[hd].key, FreeValue, pc[hd].offset # 0, pc[hd].ptrval))

InitFree ==
    /\ variant = "static"
    /\ InitFiles(OpenIn(EmptyWorld(variant), "create"),
                 OpenSecond(OpenIn(EmptyWorld(variant), "create")))
    /\ last = NoOp
    /\ exp = [k \in FreeKeys |-> Absent]
    /\ pc = [hd \in Handles |-> Idle]
    /\ budget = MaxOpsFree

NextFree ==
    \/ \E hd \in Handles, op \in {"Insert", "Delete"}, key \in FreeKeys : FreeBegin(hd, op, key)
    \/ \E hd \in Handles : FreeEarlyReturn(hd)
    \/ \E hd \in Handles : FreeDeleteRead(hd)
    \/ \E hd \in Handles : FreeDeleteWrite(hd)
    \/ \E hd \in Handles : FreeInsertWalk(hd)
    \/ \E hd \in Handles : FreeInsertUnlink(hd)
    \/ \E hd \in Handles : FreeInsertLink(hd)

SpecFree == InitFree /\ [][NextFree]_vars

\* the chain records of the static index file, in the order of the file
RECURSIVE RecordsFrom(_, _)
RecordsFrom(f, off) ==
    IF off >= Len(f) THEN {}
    ELSE {off} \cup RecordsFrom(f, off + PTR_SZ + IDXLEN_SZ
                                      + parseInt(ReadAt(f, off + PTR_SZ, IDXLEN_SZ)).val)

\* following the NEXT_PTRs from offset, the list ends within n records
RECURSIVE EndsWithin(_, _, _)
EndsWithin(f, offset, n) ==
    offset = 0 \/ (n > 0 /\ EndsWithin(f, readPtr(f, offset).val, n - 1))

MaxOpsErr == 2

ErrKeys == {NearKey, <<"r", "f">>}
ErrValues == {ValueOfLen(2), ValueOfLen(9)}

InitErr == InitDB /\ budget = MaxOpsErr

NextErr ==
    /\ UNCHANGED pc
    /\ \E hd \in Handles, key \in ErrKeys, value \in ErrValues :
        \/ Insert(hd, key, value)
        \/ Update(hd, key, value)
        \/ Upsert(hd, key, value)

SpecErr == InitErr /\ [][NextErr]_vars

\* C36: a store that returns nil has met no error: its key is then on the
\* chain of its bucket, with a chain record that reads without error
C36_NilMeansStored ==
    (last.op \in {"Insert", "Update", "Upsert"} /\ last.err = Nil)
        => (Lookup(last.h, last.key).found /\ Lookup(last.h, last.key).err = Nil)



(***************************************************************************)
(* readIdx on chain records that break the constraints of the format.  The *)
(* static index file holds one chain record, made of a pointer field, a    *)
(* length field and a body drawn from the sets below, on the chain of the  *)
(* bucket of the key rf.                                                   *)
(***************************************************************************)
MaxOpsRead == 2

PtrFields ==
    { PadInt(PTR_SZ, 0),
      <<" ", " ", " ", " ", "a", "b", "c">>,
      <<" ", " ", " ", " ", " ", "-", "1">> }

BodyFields ==
    { <<"r", "f", ":", "0", ":", "3", "\n">>,
      <<"r", "f", ":", "0", ":", "3", " ">>,
      <<"r", "f", ":", "0", ":", "3", ":", "4", "\n">>,
      <<"r", "f", ":", "0", "0", "0", "3", "\n">>,
      <<"r", "f", "0", "0", "0", "0", "3", "\n">>,
      <<"r", "f", ":", "-", "1", ":", "3", "\n">>,
      <<"r", "f", ":", "x", ":", "3", "\n">>,
      <<"r", "f", ":", "0", ":", "1", "0", "2", "5", "\n">>,
      <<"r", "f", ":", "0", ":", "-", "3", "\n">>,
      <<"r", "f", ":", "0", ":", "x", "\n">> }

\* the length of the body, and lengths outside IDXLEN_MIN .. IDXLEN_MAX
LenFields(body) ==
    { PadInt(IDXLEN_SZ, Len(body)), PadInt(IDXLEN_SZ, IDXLEN_MIN - 1),
      PadInt(IDXLEN_SZ, IDXLEN_MAX + 1), <<" ", " ", "7", "x">> }

RecordOff == empty_index_file_size

\* a handle that has opened the index
ReadHandle == HashOpen(EmptyWorld("static"), "rdwr").w.h

InitRead ==
    /\ variant = "static"
    /\ \E ptr \in PtrFields, body \in BodyFields : \E len \in LenFields(body) :
          idx = WriteAt(WriteAt(HashOpen(EmptyWorld("static"), "create").w.idx,
                                BucketPtrOff(HashDbHash(ReadHandle, <<"r", "f">>)),
                                PadInt(PTR_SZ, RecordOff)),
                        RecordOff, ptr \o len \o body)
    /\ bkt = <<>>
    /\ dat = <<"v", "v", "\n">>
    /\ hnd = [hd \in Handles |-> [ReadHandle EXCEPT !.st = "open"]]
    /\ lks = [hd \in Handles |-> NoLocks]
    /\ last = NoOp
    /\ exp = [k \in Keys |-> Absent]
    /\ pc = [hd \in Handles |-> 1]
    /\ budget = MaxOpsRead

\* a call of readIdx on the record
ReadRecord(hd) ==
    /\ IsOpen(hd)
    /\ budget' = budget - 1
    /\ hnd' = [hnd EXCEPT ![hd] =
                  [readIdx(idx, hnd[hd], RecordOff).h EXCEPT
                      !.st = IF readIdx(idx, hnd[hd], RecordOff).err = Panic
                             THEN "crashed" ELSE "open"]]
    /\ last' = [NoOp EXCEPT !.h = hd, !.op = "readIdx",
                            !.err = readIdx(idx, hnd[hd], RecordOff).err]
    /\ UNCHANGED <<variant, idx, bkt, dat, lks, exp>>

NextRead ==
    /\ UNCHANGED pc
    /\ \/ \E hd \in Handles : ReadRecord(hd)
       \/ \E hd \in Handles : Fetch(hd, <<"r", "f">>)

SpecRead == InitRead /\ [][NextRead]_vars

\* the fields of the record as they are in the file
RawPtr == parseInt(ReadAt(idx, RecordOff, PTR_SZ))
RawLen == parseInt(ReadAt(idx, RecordOff + PTR_SZ, IDXLEN_SZ))
RawBody == ReadAt(idx, RecordOff + PTR_SZ + IDXLEN_SZ, Len(idx))
RawParts == SplitSep(SubSeq(RawBody, 1, Len(RawBody) - 1))

\* the record breaks a constraint of the format
BreaksFormat ==
    \/ ~RawPtr.ok \/ RawPtr.val < 0 \/ RawPtr.val > PTR_MAX
    \/ ~RawLen.ok \/ RawLen.val < IDXLEN_MIN \/ RawLen.val > IDXLEN_MAX
    \/ ~testNewLine(RawBody)
    \/ Len(RawParts) # 3
    \/ ~parseInt(RawParts[2]).ok \/ parseInt(RawParts[2]).val < 0
    \/ ~parseInt(RawParts[3]).ok \/ parseInt(RawParts[3]).val < 0
    \/ parseInt(RawParts[3]).val > DATLEN_MAX

\* C37: readIdx (called directly, or by Fetch) on a chain record that breaks a
\* constraint of the format returns an error: it neither returns nil nor
\* panics
C37_CorruptRecordIsAnError ==
    (last.op \in {"readIdx", "Fetch"} /\ BreaksFormat) => last.err \notin {Nil, Panic}



(***************************************************************************)
(* The record count of the linear header.                                  *)
(***************************************************************************)
\* C38: in the linear index, when no operation is under way and every
\* operation so far has returned nil or a semantic error, the nrecords field
\* of the header is the number of keys that are stored
C38_NRecordsCountsKeys ==
    (variant = "linear" /\ Quiescent /\ \A k \in DOMAIN exp : exp[k].by # "unknown")
        => HeaderNRecords(idx) = Cardinality({k \in DOMAIN exp : Present(exp[k])})



(***************************************************************************)
(* The size of the linear index file.                                      *)
(***************************************************************************)
\* C39: in the linear index, when no handle is inside an operation, the .idx
\* file ends with the pointer of the last bucket of the header: its size is
\* hash_off + PTR_SZ * nbuckets, the offset at which the next split appends
C39_IdxSizeMatchesHeader ==
    (variant = "linear" /\ Quiescent /\ \A hd \in Handles : pc[hd] = 1)
        => Len(idx) = HashOff("linear") + (PTR_SZ * HeaderNHash(idx))

\* two Inserts have returned and the second has split a bucket
C39_Witness ==
    /\ variant = "linear" /\ Quiescent /\ \A hd \in Handles : pc[hd] = 1
    /\ last.op = "Insert" /\ last.err = Nil
    /\ HeaderNRecords(idx) = 2 /\ HeaderNHash(idx) = 3



(***************************************************************************)
(* Keys that hold the separator.  Handles insert and fetch the keys rf and *)
(* "g:a", which fall in the same bucket of a new database of either        *)
(* variant; no operation deletes or updates.                               *)
(***************************************************************************)
MaxOpsColon == 3

ColonKeys == {<<"r", "f">>, ColonKey}
ColonValues == {<<"v", "v">>, <<"z", "z">>}

InitColon == InitDB /\ budget = MaxOpsColon

NextColon ==
    /\ UNCHANGED pc
    /\ \E hd \in Handles, key \in ColonKeys :
        \/ \E value \in ColonValues : Insert(hd, key, value)
        \/ Fetch(hd, key)

SpecColon == InitColon /\ [][NextColon]_vars

\* C40: after an Insert that returned no error, a Fetch of the inserted key
\* returns the inserted value with no error, and a Fetch of every key that
\* was present before returns its value with no error
C40_InsertKeepsKeysReadable ==
    (last.op = "Insert" /\ last.err = Nil)
        => /\ FetchIn(World(last.h), last.key).err = Nil
           /\ FetchIn(World(last.h), last.key).val = last.arg
           /\ \A k \in DOMAIN exp :
                Present(exp[k]) => /\ FetchIn(World(last.h), k).err = Nil
                                   /\ FetchIn(World(last.h), k).val = exp[k].val

==========================================================================
